---- MODULE Spec2Model ----
(***************************************************************************)
(* A model of github.com/kennyp/palette: the palette container, the color *)
(* kernel and the ACB / ACO / CSV / JSON codecs.                           *)
(*                                                                         *)
(* The module holds several specifications over one set of variables:      *)
(*   SpecPalette  the palette container as Go objects on a heap            *)
(*   SpecColor    the color kernel (conversions between color spaces)      *)
(*   SpecACB      Adobe Color Book export / import                         *)
(*   SpecACO      Adobe Color Swatch export / import                       *)
(*   SpecJSON     JSON export / import                                     *)
(*   SpecCSV      CSV export / import                                      *)
(* Variables a specification does not use stay at their idle value.        *)
(***************************************************************************)
EXTENDS Integers, Sequences, FiniteSets, TLC

VARIABLES
    heap,   \* palette container: backing arrays of the Colors slices
    maps,   \* palette container: the metadata map objects
    obj,    \* palette container: the Palette structs "p" and "c" (the clone)
    last,   \* palette container: the receiver of the last mutating call, or "new" / "clone"
    col,    \* color kernel: the current color value
    path,   \* color kernel: the source color and the conversions applied to it
    pal,    \* codecs: the palette handed to the exporter
    codec,  \* codecs: the exporter in use (format and configuration fields)
    data,   \* codecs: the file contents the exporter wrote
    imp,    \* codecs: what the importer returned for data
    pc      \* codecs: position in the export / import sequence

vars == <<heap, maps, obj, last, col, path, pal, codec, data, imp, pc>>

NULL == "null"

(***************************************************************************)
(* Small helpers                                                           *)
(***************************************************************************)
Max(a, b) == IF a >= b THEN a ELSE b
Min(a, b) == IF a <= b THEN a ELSE b
Abs(a) == IF a < 0 THEN -a ELSE a

SeqOfUpTo(S, n) == UNION {[1..k -> S] : k \in 0..n}

(***************************************************************************)
(* Idle values of the variable groups                                      *)
(***************************************************************************)
IdlePalette == heap = <<>> /\ maps = <<>> /\ obj = <<>> /\ last = "idle"
IdleColor == col = NULL /\ path = <<>>
IdleCodec == pal = NULL /\ codec = NULL /\ data = <<>> /\ imp = NULL /\ pc = "idle"

paletteVars == <<heap, maps, obj, last>>
colorVars == <<col, path>>
codecVars == <<pal, codec, data, imp, pc>>

(***************************************************************************)
(* PALETTE CONTAINER  (src/palette/palette.go)                             *)
(*                                                                         *)
(* The Go objects are modelled with their sharing: a Palette struct holds  *)
(* a slice header (backing array, len, cap) and a reference to a map.      *)
(***************************************************************************)
MaxColors == 2          \* longest color sequence a palette is grown to

PalColors == {"c1"}              \* opaque color.Color values
PalNames == {"", "n1"}           \* color names, the empty one included
PalTitles == {"T"}               \* palette names
PalDescs == {"D"}                \* palette descriptions
MetaKeys == {"", "k1"}           \* metadata keys, the empty one included
MetaVals == {"v1"}               \* metadata values

PaletteIds == {"p", "c"}
ArrayIds == 1..3        \* two live backing arrays and the one being allocated
MapIds == 1..2

ZeroNamedColor == [Name |-> "", Color |-> NULL]

EmptyMap == [k \in {} |-> NULL]

\* a nil *Palette
NilPalette == [nil |-> TRUE]

Exists(o) == "Name" \in DOMAIN obj[o]

\* the length, contents and metadata of a palette as a caller observes them
Colors(o) ==
    LET s == obj[o].Colors IN [i \in 1..s.len |-> heap[s.arr][i]]

Metadata(o) == maps[obj[o].metadata]

View(o) ==
    IF ~Exists(o) THEN NilPalette
    ELSE [Name |-> obj[o].Name, Description |-> obj[o].Description,
          Colors |-> Colors(o), metadata |-> Metadata(o)]

\* backing arrays and maps no Palette refers to are garbage: the collector
\* reclaims them, so their identifiers are free and their contents empty
LiveArrays(ob) == {ob[o].Colors.arr : o \in {x \in PaletteIds : "Name" \in DOMAIN ob[x]}}
LiveMaps(ob) == {ob[o].metadata : o \in {x \in PaletteIds : "Name" \in DOMAIN ob[x]}}

Collect(h, ob) == [a \in ArrayIds |-> IF a \in LiveArrays(ob) THEN h[a] ELSE <<>>]
CollectMaps(m, ob) == [a \in MapIds |-> IF a \in LiveMaps(ob) THEN m[a] ELSE EmptyMap]

\* a fresh array / map: any identifier no reachable object uses
FreshArray(ob) == CHOOSE a \in ArrayIds : a \notin LiveArrays(ob)
FreshMap(ob) == CHOOSE a \in MapIds : a \notin LiveMaps(ob)

Step(h, m, ob, on) ==
    /\ obj' = ob
    /\ heap' = Collect(h, ob)
    /\ maps' = CollectMaps(m, ob)
    /\ last' = on

\* append(s, nc): in place when capacity remains, else into a new array of
\* doubled capacity to which the elements are copied
AppendColor(o, nc) ==
    LET s == obj[o].Colors IN
    IF s.len < s.cap
    THEN Step([heap EXCEPT ![s.arr][s.len + 1] = nc], maps,
              [obj EXCEPT ![o].Colors.len = s.len + 1],
              o)
    ELSE LET ncap == IF s.cap = 0 THEN 1 ELSE 2 * s.cap
             others == [obj EXCEPT ![o] = NilPalette]
             a == FreshArray(others)
             arr == [i \in 1..ncap |->
                        IF i <= s.len THEN heap[s.arr][i]
                        ELSE IF i = s.len + 1 THEN nc ELSE ZeroNamedColor]
         IN Step([heap EXCEPT ![a] = arr], maps,
                 [obj EXCEPT ![o].Colors = [arr |-> a, len |-> s.len + 1, cap |-> ncap]],
                 o)

\* slices.Delete(s, i, i+1): shifts the tail down inside the backing array,
\* zeroes the vacated last element and returns s[:len-1]
Delete(o, i) ==
    LET s == obj[o].Colors
        arr == [j \in 1..s.cap |->
                   IF j < i THEN heap[s.arr][j]
                   ELSE IF j < s.len THEN heap[s.arr][j + 1]
                   ELSE IF j = s.len THEN ZeroNamedColor
                   ELSE heap[s.arr][j]]
    IN Step([heap EXCEPT ![s.arr] = arr], maps,
            [obj EXCEPT ![o].Colors.len = s.len - 1],
            o)

\* func (p *Palette) Add(color, name)
Add(o) ==
    /\ Exists(o) /\ obj[o].Colors.len < MaxColors
    /\ \E c \in PalColors, n \in PalNames : AppendColor(o, [Name |-> n, Color |-> c])
    /\ UNCHANGED <<colorVars, codecVars>>

\* func (p *Palette) AddColor(color)
AddColor(o) ==
    /\ Exists(o) /\ obj[o].Colors.len < MaxColors
    /\ \E c \in PalColors : AppendColor(o, [Name |-> "", Color |-> c])
    /\ UNCHANGED <<colorVars, codecVars>>

\* func (p *Palette) Remove(index) error; the index is 0-based in the code
Remove(o) ==
    /\ Exists(o)
    /\ \E index \in -1..MaxColors :
          IF index < 0 \/ index >= obj[o].Colors.len
          THEN Step(heap, maps, obj, o)
          ELSE Delete(o, index + 1)
    /\ UNCHANGED <<colorVars, codecVars>>

\* func (p *Palette) RemoveByName(name) bool: the first match goes
RemoveByName(o) ==
    /\ Exists(o)
    /\ \E name \in PalNames :
          LET cs == Colors(o)
              hits == {i \in 1..Len(cs) : cs[i].Name = name}
          IN IF hits = {}
             THEN Step(heap, maps, obj, o)
             ELSE Delete(o, CHOOSE i \in hits : \A j \in hits : i <= j)
    /\ UNCHANGED <<colorVars, codecVars>>

\* func (p *Palette) Clear(): p.Colors = p.Colors[:0], the array is kept
Clear(o) ==
    /\ Exists(o)
    /\ Step(heap, maps, [obj EXCEPT ![o].Colors.len = 0], o)
    /\ UNCHANGED <<colorVars, codecVars>>

\* func (p *Palette) SetMetadata(key, value)
SetMetadata(o) ==
    /\ Exists(o)
    /\ \E k \in MetaKeys, v \in MetaVals :
          LET m == obj[o].metadata
              old == maps[m]
              new == [x \in DOMAIN old \cup {k} |-> IF x = k THEN v ELSE old[x]]
          IN Step(heap, [maps EXCEPT ![m] = new], obj, o)
    /\ UNCHANGED <<colorVars, codecVars>>

\* func (p *Palette) RemoveMetadata(key)
RemoveMetadata(o) ==
    /\ Exists(o)
    /\ \E k \in MetaKeys :
          LET m == obj[o].metadata
              old == maps[m]
              new == [x \in DOMAIN old \ {k} |-> old[x]]
          IN Step(heap, [maps EXCEPT ![m] = new], obj, o)
    /\ UNCHANGED <<colorVars, codecVars>>

\* a Clone that hands out the receiver's own slice and map
CloneShared ==
    /\ Step(heap, maps, [obj EXCEPT !["c"] = obj["p"]], "clone")
    /\ UNCHANGED <<colorVars, codecVars>>

\* func (p *Palette) Clone() *Palette: c = p.Clone()
Clone ==
    /\ LET s == obj["p"].Colors
           others == [obj EXCEPT !["c"] = NilPalette]
           a == FreshArray(others)
           m == FreshMap(others)
           arr == [i \in 1..s.len |-> heap[s.arr][i]]
       IN Step([heap EXCEPT ![a] = arr], [maps EXCEPT ![m] = maps[obj["p"].metadata]],
               [obj EXCEPT !["c"] = [Name |-> obj["p"].Name,
                                     Description |-> obj["p"].Description,
                                     Colors |-> [arr |-> a, len |-> s.len, cap |-> s.len],
                                     metadata |-> m]],
               "clone")
    /\ UNCHANGED <<colorVars, codecVars>>

\* palette.New(name), then an optional description: the state before any call
InitPalette ==
    /\ \E n \in PalTitles, d \in PalDescs :
          obj = [o \in PaletteIds |->
                    IF o = "p"
                    THEN [Name |-> n, Description |-> d,
                          Colors |-> [arr |-> 1, len |-> 0, cap |-> 0], metadata |-> 1]
                    ELSE NilPalette]
    /\ heap = [a \in ArrayIds |-> <<>>]
    /\ maps = [a \in MapIds |-> EmptyMap]
    /\ last = "new"
    /\ IdleColor /\ IdleCodec

NextPalette ==
    \/ \E o \in PaletteIds : Add(o)
    \/ \E o \in PaletteIds : AddColor(o)
    \/ \E o \in PaletteIds : Remove(o)
    \/ \E o \in PaletteIds : RemoveByName(o)
    \/ \E o \in PaletteIds : Clear(o)
    \/ \E o \in PaletteIds : SetMetadata(o)
    \/ \E o \in PaletteIds : RemoveMetadata(o)
    \/ Clone

SpecPalette == InitPalette /\ [][NextPalette]_vars

Other(o) == IF o = "p" THEN "c" ELSE "p"

\* C1: once c = p.Clone() exists, a step of Add, AddColor, Remove,
\* RemoveByName, Clear, SetMetadata or RemoveMetadata on one of the two
\* palettes leaves the name, description, color sequence and metadata of the
\* other one as they were
C1_CloneIndependent ==
    [][\A o \in PaletteIds :
          (Exists("c") /\ last' = o) => View(Other(o))' = View(Other(o))]_vars

\* C1 witness: a clone exists, the original has since lost one of
\* its two colors and the clone still has both
C1_Witness ==
    /\ Exists("c")
    /\ last = "p"
    /\ Len(Colors("c")) = 2 /\ Len(Colors("p")) = 1
    /\ Colors("p") # Colors("c")
    /\ Metadata("c") # EmptyMap

(***************************************************************************)
(* COLOR KERNEL  (package color, src/color/color_test.go lines 364-792)    *)
(*                                                                         *)
(* The conversions compute in float64 and round with math.Round.  The      *)
(* model computes the same quotients as exact fractions n / d.  Where the  *)
(* exact quotient is not halfway between two integers the float result is  *)
(* the nearest integer; where it is exactly halfway, the float operand is  *)
(* within a rounding error of the tie and math.Round goes either way       *)
(* (which way depends on the operands and on whether the build fuses       *)
(* multiply-add), so both neighbours are outcomes.                         *)
(***************************************************************************)
ChanStride == 4        \* RGB sample grid: every ChanStride-th channel value

\* channel values that are not on the grid but exercise hue wrap-around,
\* rounding ties and the largest round-trip errors
ChanExtra == {1, 108, 115, 120, 251, 254, 255}

ChanSamples == {v \in 0..255 : v % ChanStride = 0} \cup ChanExtra

\* raw constructor arguments, legal and out of range
RawHue == {0, 40, 359, 360, 400, 65535}
RawPct == {0, 50, 100, 101, 150, 255}

RGB(r, g, b) == [cs |-> "RGB", R |-> r, G |-> g, B |-> b]
CMYK(c, m, y, k) == [cs |-> "CMYK", C |-> c, M |-> m, Y |-> y, K |-> k]
HSB(h, s, b) == [cs |-> "HSB", H |-> h, S |-> s, B |-> b]
LAB(l, a, b) == [cs |-> "LAB", L |-> l, A |-> a, B |-> b]

\* func clampUint8(value, min, max)
clampUint8(value, min, max) ==
    IF value < min THEN min ELSE IF value > max THEN max ELSE value

\* func clampInt8(value, min, max)
clampInt8(value, min, max) ==
    IF value < min THEN min ELSE IF value > max THEN max ELSE value

NewRGB(r, g, b) == RGB(r, g, b)

NewCMYK(c, m, y, k) ==
    CMYK(clampUint8(c, 0, 100), clampUint8(m, 0, 100),
         clampUint8(y, 0, 100), clampUint8(k, 0, 100))

NewHSB(h, s, b) == HSB(h % 360, clampUint8(s, 0, 100), clampUint8(b, 0, 100))

NewLAB(l, a, b) == LAB(clampInt8(l, 0, 100), a, b)

\* a conversion to the integer type without math.Round
Truncate(n, d) == {n \div d}

\* math.Round of the float64 that approximates n / d (n >= 0, d > 0)
Round(n, d) ==
    IF (2 * n) % (2 * d) = d
    THEN {n \div d, n \div d + 1}
    ELSE {(2 * n + d) \div (2 * d)}

Max3(a, b, c) == Max(a, Max(b, c))
Min3(a, b, c) == Min(a, Min(b, c))

\* func (c RGB) ToCMYK(): k = 1 - max, c = (1 - r - k) / (1 - k)
RGBToCMYK(c) ==
    LET mx == Max3(c.R, c.G, c.B) IN
    IF mx = 0 THEN {CMYK(0, 0, 0, 100)}
    ELSE {CMYK(cy, mg, ye, k) :
            cy \in Round(100 * (mx - c.R), mx), mg \in Round(100 * (mx - c.G), mx),
            ye \in Round(100 * (mx - c.B), mx), k \in Round(100 * (255 - mx), 255)}

\* func (c RGB) ToHSB(): hue from the largest channel (r, then g, then b),
\* 360 added when negative; saturation delta / max; brightness max
RGBToHSB(c) ==
    LET mx == Max3(c.R, c.G, c.B)
        mn == Min3(c.R, c.G, c.B)
        delta == mx - mn
        hnum == IF mx = c.R
                THEN IF c.G >= c.B THEN 60 * (c.G - c.B)
                                   ELSE 60 * (c.G - c.B) + 360 * delta
                ELSE IF mx = c.G THEN 60 * (c.B - c.R) + 120 * delta
                ELSE 60 * (c.R - c.G) + 240 * delta
    IN IF delta = 0
       THEN {HSB(0, 0, b) : b \in Round(100 * mx, 255)}
       ELSE {HSB(h, s, b) : h \in Round(hnum, delta), s \in Round(100 * delta, mx),
                            b \in Round(100 * mx, 255)}

\* func (c CMYK) ToRGB(): 255 * (1 - c) * (1 - k)
CMYKToRGB(c) ==
    {RGB(r, g, b) : r \in Round(255 * (100 - c.C) * (100 - c.K), 10000),
                    g \in Round(255 * (100 - c.M) * (100 - c.K), 10000),
                    b \in Round(255 * (100 - c.Y) * (100 - c.K), 10000)}

\* func (c HSB) ToRGB(): chroma = v * s, x = chroma * (1 - |h/60 mod 2 - 1|),
\* m = v - chroma; the channels are chroma + m, x + m and m in the order the
\* 60-degree segment of the hue gives
HSBToRGB(c) ==
    LET t == 60 - Abs((c.H % 120) - 60)
        hi == Round(255 * c.B, 100)
        lo == Round(255 * c.B * (100 - c.S), 10000)
        mid == Round(255 * c.B * (6000 - 60 * c.S + c.S * t), 600000)
    IN IF c.H < 60 THEN {RGB(r, g, b) : r \in hi, g \in mid, b \in lo}
       ELSE IF c.H < 120 THEN {RGB(r, g, b) : r \in mid, g \in hi, b \in lo}
       ELSE IF c.H < 180 THEN {RGB(r, g, b) : r \in lo, g \in hi, b \in mid}
       ELSE IF c.H < 240 THEN {RGB(r, g, b) : r \in lo, g \in mid, b \in hi}
       ELSE IF c.H < 300 THEN {RGB(r, g, b) : r \in mid, g \in lo, b \in hi}
       ELSE {RGB(r, g, b) : r \in hi, g \in lo, b \in mid}

\* Color.ToRGB / ToCMYK / ToHSB by variant; conversions between CMYK and HSB
\* compose through RGB
ToRGB(c) ==
    CASE c.cs = "RGB" -> {c}
      [] c.cs = "CMYK" -> CMYKToRGB(c)
      [] c.cs = "HSB" -> HSBToRGB(c)

ToCMYK(c) ==
    CASE c.cs = "CMYK" -> {c}
      [] c.cs = "RGB" -> RGBToCMYK(c)
      [] c.cs = "HSB" -> UNION {RGBToCMYK(x) : x \in HSBToRGB(c)}

ToHSB(c) ==
    CASE c.cs = "HSB" -> {c}
      [] c.cs = "RGB" -> RGBToHSB(c)
      [] c.cs = "CMYK" -> UNION {RGBToHSB(x) : x \in CMYKToRGB(c)}

MaxConversions == 2     \* longest chain of conversions applied to a source

Convert(name, results) ==
    /\ Len(path.ops) < MaxConversions
    /\ \E r \in results : col' = r
    /\ path' = [path EXCEPT !.ops = Append(@, name)]
    /\ UNCHANGED <<paletteVars, codecVars>>

ConvertToRGB == Convert("ToRGB", ToRGB(col))
ConvertToCMYK == Convert("ToCMYK", ToCMYK(col))
ConvertToHSB == Convert("ToHSB", ToHSB(col))

\* the colors a caller has before any conversion: built by the constructors
InitColor ==
    /\ \/ \E r \in ChanSamples, g \in ChanSamples, b \in ChanSamples : col = NewRGB(r, g, b)
       \/ \E h \in RawHue, s \in RawPct, b \in RawPct : col = NewHSB(h, s, b)
       \/ \E c \in RawPct, m \in RawPct, k \in RawPct : col = NewCMYK(c, m, 0, k)
    /\ path = [src |-> col, ops |-> <<>>]
    /\ IdlePalette /\ IdleCodec

NextColor == ConvertToRGB \/ ConvertToCMYK \/ ConvertToHSB

SpecColor == InitColor /\ [][NextColor]_vars

IsHSB(c) == c.cs = "HSB"
FromNewHSB == path.src.cs = "HSB" /\ path.ops = <<>>
FromToHSB == Len(path.ops) > 0 /\ path.ops[Len(path.ops)] = "ToHSB"

\* C2: every HSB color returned by NewHSB or by a ToHSB conversion has its
\* hue in 0..359 and its saturation and brightness in 0..100
C2_HSBInRange ==
    (IsHSB(col) /\ (FromNewHSB \/ FromToHSB))
        => (col.H \in 0..359 /\ col.S \in 0..100 /\ col.B \in 0..100)

ChannelDiff(a, b) == Max3(Abs(a.R - b.R), Abs(a.G - b.G), Abs(a.B - b.B))

ViaCMYK == path.src.cs = "RGB" /\ path.ops = <<"ToCMYK", "ToRGB">>
ViaHSB == path.src.cs = "RGB" /\ path.ops = <<"ToHSB", "ToRGB">>

\* C3 as stated: c.ToCMYK().ToRGB() and c.ToHSB().ToRGB() each differ from the
\* RGB color c by at most 2 in every channel
C3_RoundTripWithin2 ==
    (ViaCMYK \/ ViaHSB) => ChannelDiff(path.src, col) <= 2

\* C3 amended: c.ToCMYK().ToRGB() differs from the RGB color c by at most 2 in
\* every channel and c.ToHSB().ToRGB() by at most 3
C3_RoundTripWithin2And3 ==
    /\ ViaCMYK => ChannelDiff(path.src, col) <= 2
    /\ ViaHSB => ChannelDiff(path.src, col) <= 3

\* C3 witness: an RGB -> HSB -> RGB round trip that is off by 3 in a channel
C3_Witness == ViaHSB /\ ChannelDiff(path.src, col) = 3

(***************************************************************************)
(* BINARY HELPERS  (encoding/binary big-endian, unicode/utf16)             *)
(*                                                                         *)
(* A file is a sequence of bytes.  A Go string is modelled as the sequence *)
(* of its runes (code points).  A uint32 is kept as two 16-bit halves.     *)
(***************************************************************************)
U16(x) == <<(x \div 256) % 256, x % 256>>
U32(x) == <<0, 0>> \o U16(x)        \* a uint32 below 65536

Flatten(ss) ==
    LET RECURSIVE F(_)
        F(i) == IF i > Len(ss) THEN <<>> ELSE ss[i] \o F(i + 1)
    IN F(1)

\* binary.Read of a uint16 at byte offset pos (0-based); needs pos+2 <= Len
CanRead(d, pos, n) == pos + n <= Len(d)
ReadU16(d, pos) == d[pos + 1] * 256 + d[pos + 2]

IsSurrogate(r) == r >= 55296 /\ r <= 57343      \* 0xD800..0xDFFF
ReplacementChar == 65533                        \* U+FFFD

\* utf16.Encode(runes)
Utf16Encode(runes) ==
    LET \* utf16.Encode for one rune: a surrogate pair above the BMP
        EncodeRune(r) ==
            IF r >= 65536 /\ r <= 1114111
            THEN <<55296 + ((r - 65536) \div 1024), 56320 + ((r - 65536) % 1024)>>
            ELSE IF r < 0 \/ r > 1114111 \/ IsSurrogate(r) THEN <<ReplacementChar>>
            ELSE <<r>>
    IN
        Flatten([i \in 1..Len(runes) |-> EncodeRune(runes[i])])

\* utf16.Decode of a one-element slice: a lone surrogate is U+FFFD
DecodeUnit(u) == IF IsSurrogate(u) THEN ReplacementChar ELSE u

WriteUnits(units) == Flatten([i \in 1..Len(units) |-> U16(units[i])])

\* fmt.Sprintf("%d", n) for n >= 0, as runes
Digits(n) ==
    LET RECURSIVE D(_)
        D(k) == IF k < 10 THEN <<48 + k>> ELSE D(k \div 10) \o <<48 + (k % 10)>>
    IN D(n)

\* int8(x), uint8(x), uint16(x) conversions of an integer
ToInt8(x) == ((x + 128) % 256) - 128
ToUint8(x) == x % 256
ToUint16(x) == x % 65536

\* Go integer division truncates toward zero
Quo(a, b) == IF a >= 0 THEN a \div b ELSE -((-a) \div b)

(***************************************************************************)
(* ADOBE COLOR SWATCH  (package adobe/colorswatch, src/unnamed/part_008;   *)
(* package io/colorswatch, src/unnamed/part_005)                           *)
(***************************************************************************)
Version1 == 1
Version2 == 2

ColorSpaceRGB == 0
ColorSpaceHSB == 1
ColorSpaceCMYK == 2
ColorSpaceLab == 7
ColorSpaceGrayscale == 8

\* func writeString(w, s): length prefix len(runes)+1, the UTF-16 units, a null
swatchWriteString(s) ==
    LET runes == s
        length == Len(runes) + 1
        encoded == Utf16Encode(runes)
    IN U32(length) \o WriteUnits(encoded) \o U16(0)

\* one v1 color record: color space and four values
swatchRecord(c) ==
    U16(c.ColorSpace) \o Flatten([i \in 1..4 |-> U16(c.Values[i])])

\* func (cs *ColorSwatch) MarshalBinary()
swatchMarshalBinary(cs) ==
    LET numColors == ToUint16(Len(cs.Colors))
        v1 == U16(cs.Version) \o U16(numColors)
                \o Flatten([i \in 1..Len(cs.Colors) |-> swatchRecord(cs.Colors[i])])
        v2 == U16(cs.Version) \o U16(numColors)
                \o Flatten([i \in 1..Len(cs.Colors) |->
                      swatchRecord(cs.Colors[i]) \o swatchWriteString(cs.Colors[i].Name)])
    IN IF cs.Version = Version2 THEN v1 \o v2 ELSE v1

\* the runes of the code units in d[pos .. pos+2n) up to the first null unit
DecodeUntilNull(d, pos, n) ==
    LET RECURSIVE R(_)
        R(i) == IF i >= n THEN <<>>
                ELSE LET u == ReadU16(d, pos + 2 * i)
                     IN IF u = 0 THEN <<>> ELSE <<DecodeUnit(u)>> \o R(i + 1)
    IN R(0)

\* func readString(log, r): [ok, s, pos].  The uint32 length is read as two
\* halves; make([]byte, 2*length) wraps modulo 2^32, so the byte count is
\* 2*lo when the high half is 0 or 0x8000 and more than any file otherwise
swatchReadString(d, pos) ==
    IF ~CanRead(d, pos, 4) THEN [ok |-> FALSE, s |-> <<>>, pos |-> pos]
    ELSE LET hi == ReadU16(d, pos)
             lo == ReadU16(d, pos + 2)
         IN IF hi = 0 /\ lo = 0 THEN [ok |-> TRUE, s |-> <<>>, pos |-> pos + 4]
            ELSE IF hi % 32768 # 0 \/ ~CanRead(d, pos + 4, 2 * lo)
                 THEN [ok |-> FALSE, s |-> <<>>, pos |-> pos + 4]
                 ELSE [ok |-> TRUE, s |-> DecodeUntilNull(d, pos + 4, lo),
                       pos |-> pos + 4 + 2 * lo]

swatchError == [ok |-> FALSE, Version |-> 0, Colors |-> <<>>, pos |-> 0]

\* the name-reading loop of UnmarshalBinary: record i (1-based) starts at pos
RECURSIVE swatchReadNames(_, _, _, _)
swatchReadNames(d, pos, i, colors) ==
    IF i > Len(colors) THEN [ok |-> TRUE, Version |-> Version2, Colors |-> colors, pos |-> pos]
    ELSE IF ~CanRead(d, pos, 10) THEN swatchError
    ELSE LET r == swatchReadString(d, pos + 10)
         IN IF ~r.ok THEN swatchError
            ELSE swatchReadNames(d, r.pos, i + 1, [colors EXCEPT ![i].Name = r.s])

\* func (cs *ColorSwatch) UnmarshalBinary(data)
swatchUnmarshalBinary(d) ==
    IF ~CanRead(d, 0, 2) THEN swatchError
    ELSE LET version == ReadU16(d, 0) IN
    IF version # Version1 /\ version # Version2 THEN swatchError
    ELSE IF ~CanRead(d, 2, 2) THEN swatchError
    ELSE LET numColors == ReadU16(d, 2) IN
    IF ~CanRead(d, 4, 10 * numColors) THEN swatchError
    ELSE LET colors == [i \in 1..numColors |->
                          [ColorSpace |-> ReadU16(d, 4 + 10 * (i - 1)),
                           Values |-> [j \in 1..4 |-> ReadU16(d, 4 + 10 * (i - 1) + 2 * j)],
                           Name |-> <<>>]]
             end1 == 4 + 10 * numColors
         IN
    IF version # Version2
    THEN [ok |-> TRUE, Version |-> version, Colors |-> colors, pos |-> end1]
    ELSE IF ~CanRead(d, end1, 4) THEN swatchError
    ELSE IF ReadU16(d, end1 + 2) # numColors THEN swatchError
    ELSE LET r == swatchReadNames(d, end1 + 4, 1, colors)
         IN IF r.ok THEN [r EXCEPT !.Version = ReadU16(d, end1)] ELSE r

\* a typed metadata value (the dynamic type of an `any`)
MetaUint16(n) == [t |-> "uint16", n |-> n, s |-> <<>>]
MetaInt(n) == [t |-> "int", n |-> n, s |-> <<>>]
MetaString(s) == [t |-> "string", n |-> 0, s |-> s]
MetaBookID(n) == [t |-> "BookID", n |-> n, s |-> <<>>]
MetaColorType(n) == [t |-> "ColorType", n |-> n, s |-> <<>>]

HasMeta(p, k) == k \in DOMAIN p.metadata

\* the runes of an ASCII Go string literal used by the codecs
StrColor == <<67, 111, 108, 111, 114, 32>>                       \* "Color "
StrColorSwatch == <<67, 111, 108, 111, 114, 32, 83, 119, 97, 116, 99, 104>>

ImportError == [ok |-> FALSE]

\* func convertAdobeSwatchColor(c): [ok, color]
convertAdobeSwatchColor(c) ==
    LET v == c.Values IN
    \* 3, 4, 5, 6, 10: Pantone, Focoltone, Truematch, Toyo, HKS
    CASE c.ColorSpace = ColorSpaceRGB \/ c.ColorSpace \in {3, 4, 5, 6, 10} ->
           [ok |-> TRUE, color |-> NewRGB(ToUint8(v[1] \div 256), ToUint8(v[2] \div 256),
                                          ToUint8(v[3] \div 256))]
      [] c.ColorSpace = ColorSpaceHSB ->
           [ok |-> TRUE, color |-> NewHSB(v[1] \div 182, ToUint8(v[2] \div 655),
                                          ToUint8(v[3] \div 655))]
      [] c.ColorSpace = ColorSpaceCMYK ->
           [ok |-> TRUE, color |-> NewCMYK(ToUint8(v[1] \div 100), ToUint8(v[2] \div 100),
                                           ToUint8(v[3] \div 100), ToUint8(v[4] \div 100))]
      [] c.ColorSpace = ColorSpaceLab ->
           [ok |-> TRUE, color |-> NewLAB(ToInt8(v[1] \div 100),
                                          ToInt8(Quo(v[2] - 12800, 100)),
                                          ToInt8(Quo(v[3] - 12800, 100)))]
      [] c.ColorSpace = ColorSpaceGrayscale ->
           [ok |-> TRUE, color |-> NewRGB(ToUint8(v[1] \div 100), ToUint8(v[1] \div 100),
                                          ToUint8(v[1] \div 100))]
      [] OTHER -> [ok |-> FALSE, color |-> NULL]

\* func convertToAdobeSwatchColor(c, name); the color is converted to its own
\* variant first, which leaves it unchanged
convertToAdobeSwatchColor(c, name) ==
    CASE c.cs = "RGB" ->
           [ColorSpace |-> ColorSpaceRGB, Name |-> name,
            Values |-> <<ToUint16(c.R * 256), ToUint16(c.G * 256), ToUint16(c.B * 256), 0>>]
      [] c.cs = "HSB" ->
           [ColorSpace |-> ColorSpaceHSB, Name |-> name,
            Values |-> <<ToUint16(c.H * 182), ToUint16(c.S * 655), ToUint16(c.B * 655), 0>>]
      [] c.cs = "CMYK" ->
           [ColorSpace |-> ColorSpaceCMYK, Name |-> name,
            Values |-> <<ToUint16(c.C * 100), ToUint16(c.M * 100), ToUint16(c.Y * 100),
                         ToUint16(c.K * 100)>>]
      [] c.cs = "LAB" ->
           [ColorSpace |-> ColorSpaceLab, Name |-> name,
            Values |-> <<ToUint16(ToUint16(c.L) * 100), ToUint16(c.A * 100 + 12800),
                         ToUint16(c.B * 100 + 12800), 0>>]

\* func (e *Exporter) Export(p, w): the bytes written
swatchExport(e, p) ==
    LET override == /\ HasMeta(p, "version")
                    /\ p.metadata["version"].t = "uint16"
                    /\ p.metadata["version"].n \in {Version1, Version2}
        version == IF override THEN p.metadata["version"].n ELSE e.Version
        colors == [i \in 1..Len(p.Colors) |->
                     LET a == convertToAdobeSwatchColor(p.Colors[i].Color, p.Colors[i].Name)
                     IN IF version = Version1 THEN [a EXCEPT !.Name = <<>>] ELSE a]
    IN swatchMarshalBinary([Version |-> version, Colors |-> colors])

\* func (i *Importer) Import(r)
swatchImport(d) ==
    LET acs == swatchUnmarshalBinary(d)
        conv == [i \in 1..Len(acs.Colors) |-> convertAdobeSwatchColor(acs.Colors[i])]
    IN IF ~acs.ok THEN ImportError
       ELSE IF \E i \in 1..Len(conv) : ~conv[i].ok THEN ImportError
       ELSE [ok |-> TRUE,
             Name |-> IF acs.Version = Version2   \* "Color Swatch (with names)"
                      THEN StrColorSwatch
                             \o <<32, 40, 119, 105, 116, 104, 32, 110, 97, 109, 101, 115, 41>>
                      ELSE StrColorSwatch,
             Description |-> <<>>,
             Colors |-> [i \in 1..Len(conv) |->
                           [Name |-> IF acs.Colors[i].Name = <<>> THEN StrColor \o Digits(i)
                                     ELSE acs.Colors[i].Name,
                            Color |-> conv[i].color]],
             metadata |-> [k \in {"version", "format"} |->
                             IF k = "version" THEN MetaUint16(acs.Version)
                             ELSE MetaString(<<65, 100, 111, 98, 101, 32>> \o StrColorSwatch)]]


(***************************************************************************)
(* ADOBE COLOR BOOK  (package adobe/colorbook, src/adobe/colorbook/        *)
(* colorbook.go; package io/colorbook, src/io/colorbook/colorbook.go)      *)
(***************************************************************************)
FileType == <<56, 66, 67, 66>>          \* "8BCB"
DefaultVersion == 1

ColorTypeRGB == 0
ColorTypeCMYK == 2
ColorTypeLab == 7

\* []byte(s)
Utf8Bytes(s) ==
    LET \* []byte(string(r)): the UTF-8 bytes of one rune
        Utf8EncodeRune(r) ==
            IF r < 128 THEN <<r>>
            ELSE IF r < 2048 THEN <<192 + (r \div 64), 128 + (r % 64)>>
            ELSE IF r < 65536
                 THEN <<224 + (r \div 4096), 128 + ((r \div 64) % 64), 128 + (r % 64)>>
            ELSE <<240 + (r \div 262144), 128 + ((r \div 4096) % 64),
                   128 + ((r \div 64) % 64), 128 + (r % 64)>>
    IN
        Flatten([i \in 1..Len(s) |-> Utf8EncodeRune(s[i])])

\* utf8.RuneCount of a byte string: an incomplete or invalid sequence counts
\* one rune per byte
RuneCount(bs) ==
    LET IsCont(i) == i <= Len(bs) /\ bs[i] >= 128 /\ bs[i] < 192
        Size(i) == CASE bs[i] >= 194 /\ bs[i] < 224 /\ IsCont(i + 1) -> 2
                     [] bs[i] >= 224 /\ bs[i] < 240 /\ IsCont(i + 1) /\ IsCont(i + 2) -> 3
                     [] bs[i] >= 240 /\ bs[i] < 245
                          /\ IsCont(i + 1) /\ IsCont(i + 2) /\ IsCont(i + 3) -> 4
                     [] OTHER -> 1
        RECURSIVE Count(_)
        Count(i) == IF i > Len(bs) THEN 0 ELSE 1 + Count(i + Size(i))
    IN Count(1)

\* strings.ToUpper on the runes of the model's alphabet (ASCII letters map,
\* every other rune used here has no upper-case form)
ToUpper(s) == [i \in 1..Len(s) |-> IF s[i] >= 97 /\ s[i] <= 122 THEN s[i] - 32 ELSE s[i]]

\* func generateColorKey(name, index): index is 0-based
generateColorKey(name, index) ==
    LET \* fmt.Sprintf("%03d", n) for 0 <= n < 1000, as bytes
        Pad3(n) == <<48 + (n \div 100), 48 + ((n \div 10) % 10), 48 + (n % 10)>>
    IN
        LET upper == Utf8Bytes(ToUpper(name))
            prefix == IF Len(upper) > 3 THEN SubSeq(upper, 1, 3) ELSE upper
            pad == [i \in 1..Max(0, 3 - RuneCount(prefix)) |-> 32]
            formatted == prefix \o pad \o Pad3(index % 1000)
        IN SubSeq(formatted, 1, 6)

Fnv1a(bs) ==
    LET \* one step of hash/fnv New32a on the 32-bit state <<hi, lo>>:
        \* hash ^= b; hash *= 16777619 (= 2^24 + 403), modulo 2^32
        Fnv1aStep(h, b) ==
            LET \* bitwise XOR of two bytes
                XorByte(p, q) ==
                    LET RECURSIVE X(_, _, _)
                        X(x, y, k) == IF k = 0 THEN 0
                                      ELSE ((x + y) % 2) + 2 * X(x \div 2, y \div 2, k - 1)
                    IN X(p, q, 8)
            IN
                LET lo == h[2] - (h[2] % 256) + XorByte(h[2] % 256, b)
                    hi == h[1]
                IN <<(hi * 403 + ((lo * 403) \div 65536) + (lo % 256) * 256) % 65536,
                     (lo * 403) % 65536>>
    IN
        LET \* h[1] < 0 never holds: the test evaluates the state at every step
            RECURSIVE F(_, _)
            F(h, i) == IF i > Len(bs) \/ h[1] < 0 THEN h
                       ELSE F(Fnv1aStep(h, bs[i]), i + 1)
        IN F(<<33052, 40389>>, 1)      \* offset basis 0x811C9DC5

\* a book id that hashes the name of every color, not of the first only
generateBookIDOfNames(p) ==
    LET bs == Utf8Bytes(p.Name) \o <<58>> \o Digits(Len(p.Colors)) \o <<58>>
                \o Flatten([i \in 1..Len(p.Colors) |-> Utf8Bytes(p.Colors[i].Name)])
        hash == Fnv1a(bs)
    IN ToUint16(4000 + ((hash[1] * 4001 + hash[2]) % (65535 - 4000)))

\* func generateBookID(p)
generateBookID(p) ==
    LET bs == Utf8Bytes(p.Name) \o <<58>> \o Digits(Len(p.Colors)) \o <<58>>
                \o (IF Len(p.Colors) > 0 THEN Utf8Bytes(p.Colors[1].Name) ELSE <<>>)
        hash == Fnv1a(bs)
        \* hash % (65535 - 4000), with 65536 % 61535 = 4001
    IN ToUint16(4000 + ((hash[1] * 4001 + hash[2]) % (65535 - 4000)))

\* func writeString(w, s) of package adobe/colorbook
bookWriteString(s) ==
    LET runes == s
        length == Len(runes)
        encoded == Utf16Encode(runes)
    IN U32(length) \o WriteUnits(encoded)

\* func readString(log, r) of package adobe/colorbook: [ok, s, pos]
bookReadString(d, pos) ==
    IF ~CanRead(d, pos, 4) THEN [ok |-> FALSE, s |-> <<>>, pos |-> pos]
    ELSE LET hi == ReadU16(d, pos)
             lo == ReadU16(d, pos + 2)
         IN IF hi % 32768 # 0 \/ ~CanRead(d, pos + 4, 2 * lo)
            THEN [ok |-> FALSE, s |-> <<>>, pos |-> pos + 4]
            ELSE [ok |-> TRUE,
                  s |-> [i \in 1..lo |-> DecodeUnit(ReadU16(d, pos + 4 + 2 * (i - 1)))],
                  pos |-> pos + 4 + 2 * lo]

\* func (b *ColorBook) MarshalBinary(): [ok, data]
bookMarshalBinary(b) ==
    LET colorBytes(c) ==
            bookWriteString(c.Name) \o c.Key \o
            (IF b.ColorType = ColorTypeCMYK THEN c.Components
             ELSE SubSeq(c.Components, 1, 3))
    IN IF Len(b.Colors) > 0 /\ b.ColorType \notin {ColorTypeRGB, ColorTypeLab, ColorTypeCMYK}
       THEN [ok |-> FALSE, data |-> <<>>]
       ELSE [ok |-> TRUE,
             data |-> FileType \o U16(b.Version) \o U16(b.ID)
                      \o bookWriteString(b.Title) \o bookWriteString(b.Prefix)
                      \o bookWriteString(b.Postfix) \o bookWriteString(b.Description)
                      \o U16(ToUint16(Len(b.Colors))) \o U16(b.ColorsPerPage)
                      \o U16(b.KeyColorPage) \o U16(b.ColorType)
                      \o Flatten([i \in 1..Len(b.Colors) |-> colorBytes(b.Colors[i])])]

bookError == [ok |-> FALSE]

\* the color-reading loop of UnmarshalBinary: n colors remain, reading at pos
RECURSIVE bookReadColors(_, _, _, _, _)
bookReadColors(d, pos, n, ct, acc) ==
    IF n = 0 THEN [ok |-> TRUE, Colors |-> acc, pos |-> pos]
    ELSE LET name == bookReadString(d, pos)
             w == IF ct = ColorTypeCMYK THEN 4 ELSE 3
         IN IF ~name.ok \/ ~CanRead(d, name.pos, 6 + w) THEN [ok |-> FALSE, Colors |-> <<>>, pos |-> pos]
            ELSE bookReadColors(d, name.pos + 6 + w, n - 1, ct,
                   Append(acc, [Name |-> name.s,
                                Key |-> SubSeq(d, name.pos + 1, name.pos + 6),
                                Components |-> [j \in 1..4 |->
                                    IF j <= w THEN d[name.pos + 6 + j] ELSE 0]]))

\* func (b *ColorBook) UnmarshalBinary(data)
bookUnmarshalBinary(d) ==
    IF ~CanRead(d, 0, 4) \/ SubSeq(d, 1, 4) # FileType THEN bookError
    ELSE IF ~CanRead(d, 4, 2) \/ ReadU16(d, 4) # DefaultVersion THEN bookError
    ELSE IF ~CanRead(d, 6, 2) THEN bookError
    ELSE LET title == bookReadString(d, 8) IN
    IF ~title.ok THEN bookError
    ELSE LET prefix == bookReadString(d, title.pos) IN
    IF ~prefix.ok THEN bookError
    ELSE LET postfix == bookReadString(d, prefix.pos) IN
    IF ~postfix.ok THEN bookError
    ELSE LET description == bookReadString(d, postfix.pos) IN
    IF ~description.ok THEN bookError
    ELSE LET pos == description.pos IN
    IF ~CanRead(d, pos, 8) THEN bookError
    ELSE LET ct == ReadU16(d, pos + 6) IN
    IF ct \notin {ColorTypeRGB, ColorTypeCMYK, ColorTypeLab} THEN bookError
    ELSE LET colors == bookReadColors(d, pos + 8, ReadU16(d, pos), ct, <<>>) IN
    IF ~colors.ok THEN bookError
    ELSE [ok |-> TRUE, ID |-> ReadU16(d, 6), Version |-> ReadU16(d, 4),
          Title |-> title.s, Prefix |-> prefix.s, Postfix |-> postfix.s,
          Description |-> description.s, ColorsPerPage |-> ReadU16(d, pos + 2),
          KeyColorPage |-> ReadU16(d, pos + 4), ColorType |-> ct,
          Colors |-> colors.Colors, pos |-> colors.pos]


\* the only value of a singleton set
TheOne(S) == CHOOSE x \in S : TRUE

\* func convertAdobeColor(c, colorType); the divisions by 255 and 2.55 never
\* land on a rounding tie
convertAdobeColor(c, colorType) ==
    LET v == c.Components
        pct(b) == ToUint8(TheOne(Round((255 - b) * 100, 255)))
    IN CASE colorType = ColorTypeRGB -> NewRGB(v[1], v[2], v[3])
         [] colorType = ColorTypeCMYK -> NewCMYK(pct(v[1]), pct(v[2]), pct(v[3]), pct(v[4]))
         [] colorType = ColorTypeLab ->
              NewLAB(ToInt8(TheOne(Round(v[1] * 100, 255))),
                     ToInt8(v[2] - 128), ToInt8(v[3] - 128))

\* c.ToLAB() for the colors of the input set: a LAB color is returned as it
\* is (the floating-point XYZ conversions of the other variants are outside
\* the input set)
ToLAB(c) == CASE c.cs = "LAB" -> {c}

\* func convertToAdobeColor(c, name, index, targetType): the set of results
\* (one per rounding of a tie), empty when the target type is unsupported
convertToAdobeColor(c, name, index, targetType) ==
    LET key == generateColorKey(name, index)
        inv(p) == {ToUint8(255 - r) : r \in Round(p * 255, 100)}
    IN CASE targetType = ColorTypeRGB ->
              {[Name |-> name, Key |-> key, Components |-> <<rgb.R, rgb.G, rgb.B, 0>>] :
                 rgb \in ToRGB(c)}
         [] targetType = ColorTypeCMYK ->
              UNION {{[Name |-> name, Key |-> key, Components |-> <<cy, mg, ye, k>>] :
                        cy \in inv(cmyk.C), mg \in inv(cmyk.M),
                        ye \in inv(cmyk.Y), k \in inv(cmyk.K)} :
                     cmyk \in ToCMYK(c)}
         [] targetType = ColorTypeLab ->
              UNION {{[Name |-> name, Key |-> key,
                       Components |-> <<ToUint8(l), ToUint8(lab.A + 128),
                                        ToUint8(lab.B + 128), 0>>] :
                        l \in Round(lab.L * 255, 100)} :
                     lab \in ToLAB(c)}
         [] OTHER -> {}

\* all sequences that take their i-th element from sets[i]
RECURSIVE SeqProduct(_)
SeqProduct(sets) ==
    IF Len(sets) = 0 THEN {<<>>}
    ELSE {<<x>> \o rest : x \in Head(sets), rest \in SeqProduct(Tail(sets))}

\* the field an exporter takes from metadata when it holds the wanted type
MetaOr(p, k, t, default) ==
    IF HasMeta(p, k) /\ p.metadata[k].t = t
    THEN (IF t = "string" THEN p.metadata[k].s ELSE p.metadata[k].n)
    ELSE default

\* func (e *Exporter) Export(p, w) of io/colorbook: the set of outcomes
\* [ok, data]
bookExport(p) ==
    LET id == IF HasMeta(p, "book_id") THEN MetaOr(p, "book_id", "BookID", 0)
              ELSE generateBookID(p)
        ct == MetaOr(p, "color_type", "ColorType", ColorTypeRGB)
        converted == [i \in 1..Len(p.Colors) |->
                        convertToAdobeColor(p.Colors[i].Color, p.Colors[i].Name, i - 1, ct)]
        acb(colors) ==
            [ID |-> id,
             Version |-> MetaOr(p, "version", "uint16", DefaultVersion),
             Title |-> p.Name, Description |-> p.Description,
             Prefix |-> MetaOr(p, "prefix", "string", <<>>),
             Postfix |-> MetaOr(p, "postfix", "string", <<>>),
             ColorsPerPage |-> MetaOr(p, "colors_per_page", "uint16", 0),
             KeyColorPage |-> MetaOr(p, "key_color_page", "uint16", 0),
             ColorType |-> ct, Colors |-> colors]
    IN IF \E i \in 1..Len(converted) : converted[i] = {}
       THEN {[ok |-> FALSE, data |-> <<>>]}
       ELSE {bookMarshalBinary(acb(colors)) : colors \in SeqProduct(converted)}

\* func (i *Importer) Import(r) of io/colorbook
bookImport(d) ==
    LET acb == bookUnmarshalBinary(d)
    IN IF ~acb.ok THEN ImportError
       ELSE [ok |-> TRUE, Name |-> acb.Title, Description |-> acb.Description,
             Colors |-> [i \in 1..Len(acb.Colors) |->
                           [Name |-> acb.Colors[i].Name,
                            Color |-> convertAdobeColor(acb.Colors[i], acb.ColorType)]],
             metadata |-> [k \in {"book_id", "version", "prefix", "postfix",
                                  "colors_per_page", "key_color_page", "color_type",
                                  "format"} |->
                 CASE k = "book_id" -> MetaBookID(acb.ID)
                   [] k = "version" -> MetaUint16(acb.Version)
                   [] k = "prefix" -> MetaString(acb.Prefix)
                   [] k = "postfix" -> MetaString(acb.Postfix)
                   [] k = "colors_per_page" -> MetaUint16(acb.ColorsPerPage)
                   [] k = "key_color_page" -> MetaUint16(acb.KeyColorPage)
                   [] k = "color_type" -> MetaColorType(acb.ColorType)
                   [] k = "format" ->      \* "Adobe Color Book"
                         MetaString(<<65, 100, 111, 98, 101, 32, 67, 111, 108, 111, 114,
                                      32, 66, 111, 111, 107>>)]]


(***************************************************************************)
(* SpecAdobe: a palette is exported by the ACO or the ACB exporter, or a   *)
(* two-block ACO file arrives from elsewhere, and the file is imported by  *)
(* the importer of the same format.                                        *)
(***************************************************************************)
MaxSwatchColors == 2    \* longest palette built from the sample colors

\* color names and palette titles: empty, "A", "a𝄞" / "T", "𝄞" (U+1D11E lies
\* outside the Basic Multilingual Plane)
SwatchNames == {<<>>, <<65>>, <<97, 119070>>}
SwatchTitles == {<<84>>, <<119070>>}

\* one color of every variant, and the hue-360 color that RGB.ToHSB returns
SwatchColors ==
    {NewRGB(255, 128, 1), NewCMYK(0, 50, 100, 30), NewLAB(50, -128, 127),
     NewHSB(359, 100, 50)} \cup RGBToHSB(NewRGB(255, 0, 1))

NoMetadata == [k \in {} |-> MetaUint16(0)]
OneMeta(k, v) == [x \in {k} |-> v]

\* metadata a palette may carry: none, what the ACO importer leaves, an ACB
\* color type, a book id of the codec's type or of another type
SwatchMetadata ==
    {NoMetadata}
    \cup {OneMeta("version", MetaUint16(v)) : v \in {Version1, Version2}}
    \cup {OneMeta("color_type", MetaColorType(t)) :
            t \in {ColorTypeRGB, ColorTypeCMYK, ColorTypeLab}}
    \cup {OneMeta("book_id", MetaBookID(4242)), OneMeta("book_id", MetaInt(4242))}

NamedColors(names, colors) == {[Name |-> n, Color |-> c] : n \in names, c \in colors}

\* single-color palettes that sweep every channel value of every variant
SweepColors ==
    {NewRGB(v, 255 - v, v) : v \in 0..255}
    \cup {NewCMYK(v, 100 - v, v, 100 - v) : v \in 0..100}
    \cup {NewLAB(v, 0, 0) : v \in 0..100}
    \cup {NewLAB(50, v, -1 - v) : v \in -128..127}
    \cup {NewHSB(v, 100, 100) : v \in 0..359}
    \cup {NewHSB(0, v, 100 - v) : v \in 0..100}

\* the ACB color type whose components hold a color of this variant
MatchingType(c) ==
    CASE c.cs = "RGB" -> ColorTypeRGB
      [] c.cs = "CMYK" -> ColorTypeCMYK
      [] c.cs = "LAB" -> ColorTypeLab
      [] c.cs = "HSB" -> ColorTypeRGB

MakePalette(name, description, colors, metadata) ==
    [Name |-> name, Description |-> description, Colors |-> colors, metadata |-> metadata]

InitAdobe ==
    /\ \/ \E t \in SwatchTitles, m \in SwatchMetadata,
             cs \in SeqOfUpTo(NamedColors(SwatchNames, SwatchColors), MaxSwatchColors) :
             pal = MakePalette(t, <<>>, cs, m)
       \/ \E c \in SweepColors :
             pal = MakePalette(<<84>>, <<68>>, <<[Name |-> <<65>>, Color |-> c]>>,
                               OneMeta("color_type", MetaColorType(MatchingType(c))))
    /\ codec = NULL /\ data = <<>> /\ imp = NULL /\ pc = "start"
    /\ IdlePalette /\ IdleColor

\* e.Export(p, w) with e = NewExporterV1() or NewExporter()
ExportACO ==
    /\ pc = "start"
    /\ \E v \in {Version1, Version2} :
         /\ codec' = [format |-> "aco", by |-> "Exporter", Version |-> v]
         /\ data' = swatchExport(codec', pal)
    /\ pc' = "exported"
    /\ UNCHANGED <<pal, imp, paletteVars, colorVars>>

\* the Lab <-> RGB conversions are not modelled: a palette is exported as ACB
\* when no color has to cross between LAB and another variant
NoLabConversion(p) ==
    LET ct == MetaOr(p, "color_type", "ColorType", ColorTypeRGB)
    IN \A i \in 1..Len(p.Colors) :
          (p.Colors[i].Color.cs = "LAB") <=> (ct = ColorTypeLab)

\* colorbook.NewExporter().Export(p, w)
ExportACB ==
    /\ pc = "start"
    /\ NoLabConversion(pal)
    /\ codec' = [format |-> "acb", by |-> "Exporter"]
    /\ \E r \in bookExport(pal) :
         IF r.ok THEN data' = r.data /\ pc' = "exported"
         ELSE data' = <<>> /\ pc' = "failed"
    /\ UNCHANGED <<pal, imp, paletteVars, colorVars>>

\* a UString with its terminating null, as ACO files carry it: the length
\* counts the code units that follow, the null included
FileString(s) ==
    LET encoded == Utf16Encode(s)
    IN U32(Len(encoded) + 1) \o WriteUnits(encoded) \o U16(0)

\* an ACO file of two blocks: a header <<first, n>> and n records, then a
\* header <<second, n>> and n records each followed by the color's name
TwoBlockFile(first, second, colors) ==
    U16(first) \o U16(Len(colors))
      \o Flatten([i \in 1..Len(colors) |-> swatchRecord(colors[i])])
      \o U16(second) \o U16(Len(colors))
      \o Flatten([i \in 1..Len(colors) |->
                    swatchRecord(colors[i]) \o FileString(colors[i].Name)])

\* a two-block ACO file holding the palette's colors arrives from another
\* program; its two version fields are whatever that program wrote
ReceiveACO ==
    /\ pc = "start"
    /\ \E first \in {Version1, Version2}, second \in {Version1, Version2} :
         /\ codec' = [format |-> "aco", by |-> "file", first |-> first, second |-> second]
         /\ data' = TwoBlockFile(first, second,
                       [i \in 1..Len(pal.Colors) |->
                          convertToAdobeSwatchColor(pal.Colors[i].Color, pal.Colors[i].Name)])
    /\ pc' = "exported"
    /\ UNCHANGED <<pal, imp, paletteVars, colorVars>>

\* colorswatch.NewImporter().Import(r)
ImportACO ==
    /\ pc = "exported" /\ codec.format = "aco"
    /\ imp' = swatchImport(data)
    /\ pc' = "imported"
    /\ UNCHANGED <<pal, codec, data, paletteVars, colorVars>>

\* colorbook.NewImporter().Import(r)
ImportACB ==
    /\ pc = "exported" /\ codec.format = "acb"
    /\ imp' = bookImport(data)
    /\ pc' = "imported"
    /\ UNCHANGED <<pal, codec, data, paletteVars, colorVars>>

NextAdobe == ExportACO \/ ExportACB \/ ReceiveACO \/ ImportACO \/ ImportACB

SpecAdobe == InitAdobe /\ [][NextAdobe]_vars

ByExporter(f) == codec.format = f /\ codec.by = "Exporter"
SameColors(p, q) ==
    /\ Len(q.Colors) = Len(p.Colors)
    /\ \A i \in 1..Len(p.Colors) : q.Colors[i].Color = p.Colors[i].Color

\* C7: an ACO export followed by an ACO import yields as many colors as the
\* palette had, each of the original's variant with the original's channel
\* values.
C7_SwatchRoundTrip ==
    (pc = "imported" /\ ByExporter("aco")) => (imp.ok /\ SameColors(pal, imp))


\* the palette's colors are all of one variant and metadata color_type is
\* the ACB type of that variant
MatchingColorType(p) ==
    /\ HasMeta(p, "color_type") /\ p.metadata["color_type"].t = "ColorType"
    /\ \E v \in {"CMYK", "LAB", "RGB"} :
          \A i \in 1..Len(p.Colors) :
             /\ p.Colors[i].Color.cs = v
             /\ p.metadata["color_type"].n = MatchingType(p.Colors[i].Color)

\* C4: for a palette of CMYK (LAB, RGB) colors whose color_type is the
\* matching ACB type, an ACB export followed by an ACB import returns the
\* same channel values at every index.
C4_BookRoundTrip ==
    (pc = "imported" /\ ByExporter("acb") /\ MatchingColorType(pal))
        => (imp.ok /\ SameColors(pal, imp))

\* C8: importing a v1 block with version field 1 followed by a version-2
\* block with the same count and named records yields as many colors as the
\* blocks hold, bearing the names stored in the second block.
C8_NamesOfSecondBlock ==
    (pc = "imported" /\ codec.format = "aco" /\ codec.by = "file"
        /\ codec.first = Version1 /\ codec.second = Version2
        /\ \A i \in 1..Len(pal.Colors) :
              pal.Colors[i].Name # <<>> /\ \A j \in 1..Len(pal.Colors[i].Name) :
                                              pal.Colors[i].Name[j] < 65536)
        => /\ imp.ok
           /\ Len(imp.Colors) = Len(pal.Colors)
           /\ \A i \in 1..Len(pal.Colors) : imp.Colors[i].Name = pal.Colors[i].Name

\* the version the ACO exporter writes: its Version field unless metadata
\* version overrides it
WrittenVersion ==
    IF HasMeta(pal, "version") /\ pal.metadata["version"].t = "uint16"
       /\ pal.metadata["version"].n \in {Version1, Version2}
    THEN pal.metadata["version"].n ELSE codec.Version

\* C9: a file the ACO exporter writes for version 2 is a v1 block whose
\* version field is 1, followed by a block with version field 2 and the
\* same color count.
C9_FirstBlockIsVersion1 ==
    (pc = "exported" /\ ByExporter("aco") /\ WrittenVersion = Version2)
        => LET n == Len(pal.Colors)
           IN /\ ReadU16(data, 0) = Version1
              /\ ReadU16(data, 2) = n
              /\ ReadU16(data, 4 + 10 * n) = Version2
              /\ ReadU16(data, 6 + 10 * n) = n

\* the strings an export has written, each as the bytes of its length
\* prefix and code units
WrittenStrings ==
    IF codec.format = "aco"
    THEN {swatchWriteString(pal.Colors[i].Name) :
            i \in {j \in 1..Len(pal.Colors) : WrittenVersion = Version2}}
    ELSE {bookWriteString(s) :
            s \in {pal.Name, pal.Description,
                   MetaOr(pal, "prefix", "string", <<>>),
                   MetaOr(pal, "postfix", "string", <<>>)}
                  \cup {pal.Colors[i].Name : i \in 1..Len(pal.Colors)}}

\* C10: in every string the ACB and ACO writers emit, the u32 length prefix
\* equals the number of UTF-16 code units written after it (the terminating
\* null included for ACO).
C10_LengthCountsCodeUnits ==
    (pc = "exported" /\ codec.by = "Exporter")
        => \A w \in WrittenStrings :
              ReadU16(w, 0) = 0 /\ 2 * ReadU16(w, 2) = Len(w) - 4


(***************************************************************************)
(* JSON CODEC  (package io/json, src/io/json/json.go)                      *)
(*                                                                         *)
(* A document is the value tree that encoding/json writes and reads back:  *)
(* strings, numbers, arrays and objects (functions from the keys that are  *)
(* present).  A Go string may hold bytes that are not UTF-8; such a byte   *)
(* is the rune BadByte, which json.Marshal replaces by U+FFFD.             *)
(***************************************************************************)
BadByte == -1

Absent == [k |-> "absent"]
JString(s) == [k |-> "string", s |-> [i \in 1..Len(s) |-> IF s[i] < 0 THEN ReplacementChar ELSE s[i]]]
JNumber(n) == [k |-> "number", n |-> n]
JArray(a) == [k |-> "array", a |-> a]
\* an object of the fields of f that are not Absent
JObject(f) ==
    [k |-> "object", o |-> [x \in {y \in DOMAIN f : f[y].k # "absent"} |-> f[x]]]

\* a field that is left out whatever it holds
OmitAlways(s) == Absent

\* `json:",omitempty"` on a string field
OmitEmpty(s) == IF s = <<>> THEN Absent ELSE JString(s)

FormatPrimary == 1
FormatRGB == 2
FormatHex == 4
FormatCMYK == 8
FormatHSB == 16
FormatLAB == 32

\* e.ColorFormat&flag != 0
HasFlag(mask, flag) == (mask \div flag) % 2 = 1

\* fmt.Sprintf("%02X", b), as runes
Hex2(b) ==
    LET digit(d) == IF d < 10 THEN 48 + d ELSE 55 + d
    IN <<digit(b \div 16), digit(b % 16)>>

\* func (e *Exporter) convertColorToJSON(namedColor): the set of results, one
\* per value the color's own conversions can return
convertColorToJSON(e, nc) ==
    LET \* the runes of the color-space labels
        ColorSpaceName(c) ==
            CASE c.cs = "RGB" -> <<82, 71, 66>>
              [] c.cs = "CMYK" -> <<67, 77, 89, 75>>
              [] c.cs = "HSB" -> <<72, 83, 66>>
              [] c.cs = "LAB" -> <<76, 65, 66>>
    IN
        LET rgbs == IF HasFlag(e.ColorFormat, FormatRGB) \/ HasFlag(e.ColorFormat, FormatPrimary)
                       \/ HasFlag(e.ColorFormat, FormatHex)
                    THEN ToRGB(nc.Color) ELSE {NewRGB(0, 0, 0)}
            cmyks == IF HasFlag(e.ColorFormat, FormatCMYK) THEN ToCMYK(nc.Color)
                     ELSE {NewCMYK(0, 0, 0, 0)}
            hsbs == IF HasFlag(e.ColorFormat, FormatHSB) THEN ToHSB(nc.Color)
                    ELSE {NewHSB(0, 0, 0)}
            labs == IF HasFlag(e.ColorFormat, FormatLAB) THEN ToLAB(nc.Color)
                    ELSE {NewLAB(0, 0, 0)}
        IN {JObject([f \in {"name", "color_space", "rgb", "cmyk", "hsb", "lab", "hex"} |->
              CASE f = "name" -> OmitEmpty(nc.Name)
                [] f = "color_space" -> OmitEmpty(ColorSpaceName(nc.Color))
                [] f = "rgb" ->
                     IF HasFlag(e.ColorFormat, FormatRGB) \/ HasFlag(e.ColorFormat, FormatPrimary)
                     THEN JObject([x \in {"r", "g", "b"} |->
                             JNumber(CASE x = "r" -> rgb.R [] x = "g" -> rgb.G [] x = "b" -> rgb.B)])
                     ELSE Absent
                [] f = "hex" ->
                     IF HasFlag(e.ColorFormat, FormatHex)
                     THEN JString(<<35>> \o Hex2(rgb.R) \o Hex2(rgb.G) \o Hex2(rgb.B))
                     ELSE Absent
                [] f = "cmyk" ->
                     IF HasFlag(e.ColorFormat, FormatCMYK)
                     THEN JObject([x \in {"c", "m", "y", "k"} |->
                             JNumber(CASE x = "c" -> cmyk.C [] x = "m" -> cmyk.M
                                       [] x = "y" -> cmyk.Y [] x = "k" -> cmyk.K)])
                     ELSE Absent
                [] f = "hsb" ->
                     IF HasFlag(e.ColorFormat, FormatHSB)
                     THEN JObject([x \in {"h", "s", "b"} |->
                             JNumber(CASE x = "h" -> hsb.H [] x = "s" -> hsb.S [] x = "b" -> hsb.B)])
                     ELSE Absent
                [] f = "lab" ->
                     IF HasFlag(e.ColorFormat, FormatLAB)
                     THEN JObject([x \in {"l", "a", "b"} |->
                             JNumber(CASE x = "l" -> lab.L [] x = "a" -> lab.A [] x = "b" -> lab.B)])
                     ELSE Absent]) :
            rgb \in rgbs, cmyk \in cmyks, hsb \in hsbs, lab \in labs}

\* a decoded JSON value kept in metadata as an `any`
MetaJSON(v) == [t |-> "json", n |-> 0, s |-> <<>>, v |-> v]

\* func (e *Exporter) Export(p, w): the set of documents written
jsonExport(e, p) ==
    LET \* json.Marshal of a metadata value: the numeric types become numbers
        JMetaValue(v) ==
            IF v.t = "string" THEN JString(v.s) ELSE IF v.t = "json" THEN v.v ELSE JNumber(v.n)
    IN
        LET metadata == IF e.IncludeMetadata /\ DOMAIN p.metadata # {}
                        THEN JObject([x \in DOMAIN p.metadata |-> JMetaValue(p.metadata[x])])
                        ELSE Absent
            colors == SeqProduct([i \in 1..Len(p.Colors) |-> convertColorToJSON(e, p.Colors[i])])
        IN {[indent |-> e.PrettyPrint,
             value |-> JObject([f \in {"name", "description", "colors", "metadata"} |->
                         CASE f = "name" -> JString(p.Name)
                           [] f = "description" -> OmitEmpty(p.Description)
                           [] f = "colors" -> JArray(cs)
                           [] f = "metadata" -> metadata])] : cs \in colors}


StrJSON == <<74, 83, 79, 78>>                                              \* "JSON"

Field(v, f) == IF f \in DOMAIN v.o THEN v.o[f] ELSE Absent

\* json.Unmarshal into a string field / an integer field of the given range
\* / a pointer to a struct of integer fields: an absent key leaves the zero
\* value, a value of another type or out of range is an error
IsStringField(v) == v.k \in {"absent", "string"}
StringOf(v) == IF v.k = "string" THEN v.s ELSE <<>>
IsStructField(v, fields, lo, hi) ==
    LET IsIntField(w) == w.k = "absent" \/ (w.k = "number" /\ w.n >= lo /\ w.n <= hi)
    IN v.k = "absent" \/ (v.k = "object" /\ \A f \in fields : IsIntField(Field(v, f)))

\* json.Unmarshal succeeds on a ColorJSON
IsColorJSON(v) ==
    /\ v.k = "object"
    /\ IsStringField(Field(v, "name")) /\ IsStringField(Field(v, "color_space"))
    /\ IsStringField(Field(v, "hex"))
    /\ IsStructField(Field(v, "rgb"), {"r", "g", "b"}, 0, 255)
    /\ IsStructField(Field(v, "cmyk"), {"c", "m", "y", "k"}, 0, 255)
    /\ IsStructField(Field(v, "hsb"), {"s", "b"}, 0, 255)
    /\ IsStructField(Field(v, "hsb"), {"h"}, 0, 65535)
    /\ IsStructField(Field(v, "lab"), {"l", "a", "b"}, -128, 127)
    /\ Field(v, "metadata").k \in {"absent", "object"}

\* json.Unmarshal succeeds on a PaletteJSON
IsPaletteJSON(v) ==
    /\ v.k = "object"
    /\ IsStringField(Field(v, "name")) /\ IsStringField(Field(v, "description"))
    /\ LET colors == Field(v, "colors")
       IN \/ colors.k = "absent"
          \/ colors.k = "array" /\ \A i \in 1..Len(colors.a) : IsColorJSON(colors.a[i])

HexValue(r) ==
    CASE r >= 48 /\ r <= 57 -> r - 48
      [] r >= 65 /\ r <= 70 -> r - 55
      [] r >= 97 /\ r <= 102 -> r - 87
      [] OTHER -> -1

jsonColorError == [ok |-> FALSE, color |-> NULL]

\* func (i *Importer) parseHexColor(hex): six hexadecimal digits after an
\* optional '#'
jsonParseHexColor(hex) ==
    IF Len(hex) = 0 THEN jsonColorError
    ELSE LET h == IF hex[1] = 35 THEN Tail(hex) ELSE hex
         IN IF Len(Utf8Bytes(h)) # 6 \/ \E i \in 1..Len(h) : HexValue(h[i]) < 0
            THEN jsonColorError
            ELSE [ok |-> TRUE,
                  color |-> NewRGB(16 * HexValue(h[1]) + HexValue(h[2]),
                                   16 * HexValue(h[3]) + HexValue(h[4]),
                                   16 * HexValue(h[5]) + HexValue(h[6]))]

\* func (i *Importer) parseGenericValues(values, colorSpace) for numbers
\* inside the range of the target type
parseGenericValues(values, colorSpace) ==
    IF values.k # "array" \/ \E i \in 1..Len(values.a) : values.a[i].k # "number"
    THEN jsonColorError
    ELSE LET nums == [i \in 1..Len(values.a) |-> values.a[i].n]
             RGBNames == {<<82, 71, 66>>, <<114, 103, 98>>}
             CMYKNames == {<<67, 77, 89, 75>>, <<99, 109, 121, 107>>}
             HSBNames == {<<72, 83, 66>>, <<104, 115, 98>>, <<72, 83, 86>>, <<104, 115, 118>>}
             LABNames == {<<76, 65, 66>>, <<108, 97, 98>>}
         IN CASE colorSpace \in CMYKNames ->
                   IF Len(nums) < 4 THEN jsonColorError
                   ELSE [ok |-> TRUE, color |-> NewCMYK(nums[1], nums[2], nums[3], nums[4])]
              [] colorSpace \in HSBNames ->
                   IF Len(nums) < 3 THEN jsonColorError
                   ELSE [ok |-> TRUE, color |-> NewHSB(nums[1], nums[2], nums[3])]
              [] colorSpace \in LABNames ->
                   IF Len(nums) < 3 THEN jsonColorError
                   ELSE [ok |-> TRUE, color |-> NewLAB(nums[1], nums[2], nums[3])]
              [] OTHER ->
                   IF Len(nums) < 3 THEN jsonColorError
                   ELSE [ok |-> TRUE, color |-> NewRGB(nums[1], nums[2], nums[3])]

\* func (i *Importer) convertColorJSON(data): RGB > Hex > CMYK > HSB > LAB >
\* values
convertColorJSON(v) ==
    LET IntOf(w) == IF w.k = "number" THEN w.n ELSE 0
    IN
        LET rgb == Field(v, "rgb")
            cmyk == Field(v, "cmyk")
            hsb == Field(v, "hsb")
            lab == Field(v, "lab")
            n(o, f) == IntOf(Field(o, f))
        IN IF rgb.k = "object"
           THEN [ok |-> TRUE, color |-> NewRGB(n(rgb, "r"), n(rgb, "g"), n(rgb, "b"))]
           ELSE IF StringOf(Field(v, "hex")) # <<>>
           THEN jsonParseHexColor(StringOf(Field(v, "hex")))
           ELSE IF cmyk.k = "object"
           THEN [ok |-> TRUE,
                 color |-> NewCMYK(n(cmyk, "c"), n(cmyk, "m"), n(cmyk, "y"), n(cmyk, "k"))]
           ELSE IF hsb.k = "object"
           THEN [ok |-> TRUE, color |-> NewHSB(n(hsb, "h"), n(hsb, "s"), n(hsb, "b"))]
           ELSE IF lab.k = "object"
           THEN [ok |-> TRUE, color |-> NewLAB(n(lab, "l"), n(lab, "a"), n(lab, "b"))]
           ELSE IF Field(v, "values").k # "absent"
           THEN parseGenericValues(Field(v, "values"), StringOf(Field(v, "color_space")))
           ELSE jsonColorError

\* the loop shared by convertFromPaletteJSON and convertFromColorArray
jsonConvertColors(name, description, metadata, colors) ==
    LET conv == [i \in 1..Len(colors) |-> convertColorJSON(colors[i])]
    IN IF \E i \in 1..Len(conv) : ~conv[i].ok THEN {ImportError}
       ELSE {[ok |-> TRUE, Name |-> name, Description |-> description,
              Colors |-> [i \in 1..Len(colors) |->
                  [Name |-> IF StringOf(Field(colors[i], "name")) = <<>>
                            THEN StrColor \o Digits(i)
                            ELSE StringOf(Field(colors[i], "name")),
                   Color |-> conv[i].color]],
              metadata |-> metadata]}

\* a convertFromPaletteJSON that drops data.Metadata
convertFromPaletteJSONBare(v) ==
    jsonConvertColors(StringOf(Field(v, "name")), StringOf(Field(v, "description")),
        [k \in {"format"} |-> MetaString(StrJSON)],
        IF Field(v, "colors").k = "array" THEN Field(v, "colors").a ELSE <<>>)

\* func (i *Importer) convertFromPaletteJSON(data)
convertFromPaletteJSON(v) ==
    LET ColorsOf == IF Field(v, "colors").k = "array" THEN Field(v, "colors").a ELSE <<>>
    IN
        jsonConvertColors(StringOf(Field(v, "name")), StringOf(Field(v, "description")),
            [k \in {"format"} \cup (IF Field(v, "metadata").k = "absent" THEN {}
                                    ELSE {"original_metadata"}) |->
                IF k = "format" THEN MetaString(StrJSON) ELSE MetaJSON(Field(v, "metadata"))],
            ColorsOf)

\* func (i *Importer) convertFromColorArray(colors)
convertFromColorArray(v) ==
    jsonConvertColors(StrJSON \o <<32, 67, 111, 108, 111, 114, 32, 65, 114, 114, 97, 121>>,   \* "JSON Color Array"
                      <<>>, OneMeta("format", MetaString(StrJSON)), v.a)

\* func (i *Importer) tryParseColorValue(key, value)
tryParseColorValue(value) ==
    IF value.k = "string" /\ jsonParseHexColor(value.s).ok THEN jsonParseHexColor(value.s)
    ELSE IF value.k = "array" /\ Len(value.a) >= 3
            /\ \A i \in 1..Len(value.a) : value.a[i].k = "number"
    THEN [ok |-> TRUE, color |-> NewRGB(ToUint8(value.a[1].n), ToUint8(value.a[2].n),
                                        ToUint8(value.a[3].n))]
    ELSE jsonColorError

\* func (i *Importer) convertFromGenericJSON(data): one palette per order
convertFromGenericJSON(v) ==
    LET \* the orders in which a range over a Go map can visit the keys
        Orders(keys) ==
            {s \in [1..Cardinality(keys) -> keys] : \A i, j \in DOMAIN s : i # j => s[i] # s[j]}
    IN
        LET \* the runes of an object key
            KeyRunes(key) ==
                CASE key = "name" -> <<110, 97, 109, 101>>
                  [] key = "description" -> <<100, 101, 115, 99, 114, 105, 112, 116, 105, 111, 110>>
                  [] key = "colors" -> <<99, 111, 108, 111, 114, 115>>
                  [] key = "metadata" -> <<109, 101, 116, 97, 100, 97, 116, 97>>
                  [] key = "red" -> <<114, 101, 100>>
                  [] key = "blue" -> <<98, 108, 117, 101>>
        IN
            LET found == {key \in DOMAIN v.o : tryParseColorValue(v.o[key]).ok}
            IN IF found = {} THEN {ImportError}
               ELSE {[ok |-> TRUE, Description |-> <<>>,
                      Name |-> StrJSON \o <<32, 73, 109, 112, 111, 114, 116>>,   \* "JSON Import"
                      Colors |-> [i \in 1..Len(order) |->
                          [Name |-> KeyRunes(order[i]),
                           Color |-> tryParseColorValue(v.o[order[i]]).color]],
                      metadata |-> OneMeta("format", MetaString(StrJSON))] : order \in Orders(found)}

\* func (i *Importer) Import(r): the set of outcomes
jsonImport(doc) ==
    LET v == doc.value
    IN IF IsPaletteJSON(v) /\ StringOf(Field(v, "name")) # <<>>
       THEN convertFromPaletteJSON(v)
       ELSE IF v.k = "array" /\ Len(v.a) > 0 /\ \A i \in 1..Len(v.a) : IsColorJSON(v.a[i])
       THEN convertFromColorArray(v)
       ELSE IF v.k = "object" THEN convertFromGenericJSON(v)
       ELSE {ImportError}


(***************************************************************************)
(* SpecJSON: a palette is exported by a JSON exporter and the document is  *)
(* imported again.                                                         *)
(***************************************************************************)
MaxJSONColors == 2      \* longest palette exported as JSON

\* palette names "", "T", "T" followed by a byte that is not UTF-8;
\* descriptions "", "FF0000"; color names "", "A", "B"
JSONTitles == {<<>>, <<84>>, <<84, BadByte>>}
JSONDescriptions == {<<>>, <<70, 70, 48, 48, 48, 48>>}
JSONNames == {<<>>, <<65>>, <<66>>}
JSONColors == {NewRGB(255, 128, 1), NewCMYK(0, 50, 100, 30), NewHSB(359, 100, 50)}
\* metadata: none, k1 = "v", and k1 = "v" with k2 = 42
JSONMetadata ==
    {NoMetadata, OneMeta("k1", MetaString(<<118>>)),
     [k \in {"k1", "k2"} |-> IF k = "k1" THEN MetaString(<<118>>) ELSE MetaInt(42)]}

JSONExporter(pp, im, cf) ==
    [format |-> "json", PrettyPrint |-> pp, IncludeMetadata |-> im, ColorFormat |-> cf]

\* NewExporter() and exporters with other settings (the Lab conversions are
\* not modelled, so no LAB flag and no LAB color)
JSONExporters ==
    {JSONExporter(TRUE, TRUE, FormatRGB + FormatHex),
     JSONExporter(FALSE, FALSE, FormatPrimary),
     JSONExporter(TRUE, FALSE, FormatHex),
     JSONExporter(FALSE, TRUE, FormatRGB + FormatHex + FormatCMYK + FormatHSB)}

InitJSON ==
    /\ \E t \in JSONTitles, d \in JSONDescriptions, m \in JSONMetadata,
          cs \in SeqOfUpTo(NamedColors(JSONNames, JSONColors), MaxJSONColors) :
          pal = MakePalette(t, d, cs, m)
    /\ codec = NULL /\ data = <<>> /\ imp = NULL /\ pc = "start"
    /\ IdlePalette /\ IdleColor

\* e.Export(p, w)
ExportJSON ==
    /\ pc = "start"
    /\ \E e \in JSONExporters :
         /\ codec' = e
         /\ \E doc \in jsonExport(e, pal) : data' = doc
    /\ pc' = "exported"
    /\ UNCHANGED <<pal, imp, paletteVars, colorVars>>

\* NewImporter().Import(r)
ImportJSON ==
    /\ pc = "exported" /\ codec.format = "json"
    /\ \E p \in jsonImport(data) : imp' = p
    /\ pc' = "imported"
    /\ UNCHANGED <<pal, codec, data, paletteVars, colorVars>>

\* the palette that came out of the import is exported again (a palette
\* that went through two round trips is left alone)
ExportAgainJSON ==
    /\ pc = "imported" /\ codec.format = "json"
    /\ imp.ok /\ ~HasMeta(pal, "format")
    /\ pal' = MakePalette(imp.Name, imp.Description, imp.Colors, imp.metadata)
    /\ \E e \in JSONExporters :
         /\ codec' = e
         /\ \E doc \in jsonExport(e, pal') : data' = doc
    /\ pc' = "exported"
    /\ UNCHANGED <<imp, paletteVars, colorVars>>

NextJSON == ExportJSON \/ ImportJSON \/ ExportAgainJSON

SpecJSON == InitJSON /\ [][NextJSON]_vars

UniqueNonEmptyNames(p) ==
    /\ \A i \in 1..Len(p.Colors) : p.Colors[i].Name # <<>>
    /\ \A i, j \in 1..Len(p.Colors) : i # j => p.Colors[i].Name # p.Colors[j].Name

ValidUTF8(s) == \A i \in 1..Len(s) : s[i] # BadByte

\* the imported palette has the exported one's name, description and
\* color count, and at every index the RGB value of the exported color
SameNameAndRGB ==
    /\ imp.ok
    /\ imp.Name = pal.Name /\ imp.Description = pal.Description
    /\ Len(imp.Colors) = Len(pal.Colors)
    /\ \A i \in 1..Len(pal.Colors) : imp.Colors[i].Color \in ToRGB(pal.Colors[i].Color)

JSONRoundTripDone ==
    /\ pc = "imported" /\ codec.format = "json"
    /\ HasFlag(codec.ColorFormat, FormatRGB)
    /\ UniqueNonEmptyNames(pal)

csvFormatAuto == 0
csvFormatRGB == 1
csvFormatRGBFloat == 2
csvFormatHex == 3
csvFormatCMYK == 4
csvFormatHSB == 5
csvFormatLAB == 6

Comma == 44
Quote == 34
Newline == 10

IsSpace(r) == r \in {9, 10, 11, 12, 13, 32, 133, 160}
IsDigit(r) == r >= 48 /\ r <= 57

\* fmt.Sprintf("%d", n) for any integer
FormatInt(n) == IF n < 0 THEN <<45>> \o Digits(-n) ELSE Digits(n)

\* func (c RGB) String() and the String methods of the other variants
ColorString(c) ==
    LET sep == <<44, 32>>
        pct == <<37>>
    IN CASE c.cs = "RGB" ->
              <<82, 71, 66, 40>> \o Digits(c.R) \o sep \o Digits(c.G) \o sep \o Digits(c.B)
                \o <<41>>
         [] c.cs = "CMYK" ->
              <<67, 77, 89, 75, 40>> \o Digits(c.C) \o pct \o sep \o Digits(c.M) \o pct \o sep
                \o Digits(c.Y) \o pct \o sep \o Digits(c.K) \o pct \o <<41>>
         [] c.cs = "HSB" ->
              <<72, 83, 66, 40>> \o Digits(c.H) \o <<176>> \o sep \o Digits(c.S) \o pct \o sep
                \o Digits(c.B) \o pct \o <<41>>
         [] c.cs = "LAB" ->
              <<76, 65, 66, 40>> \o FormatInt(c.L) \o sep \o FormatInt(c.A) \o sep
                \o FormatInt(c.B) \o <<41>>

\* func (w *Writer) Write(record) of encoding/csv
csvWriteRecord(record) ==
    LET \* func (w *Writer) fieldNeedsQuotes(field) of encoding/csv
        fieldNeedsQuotes(field) ==
            /\ field # <<>>
            /\ \/ field = <<92, 46>>
               \/ \E i \in 1..Len(field) : field[i] \in {Comma, Quote, Newline, 13}
               \/ IsSpace(field[1])
    IN
        LET \* one field as encoding/csv writes it
            csvWriteField(field) ==
                IF ~fieldNeedsQuotes(field) THEN field
                ELSE <<Quote>>
                       \o Flatten([i \in 1..Len(field) |->
                                     IF field[i] = Quote THEN <<Quote, Quote>> ELSE <<field[i]>>])
                       \o <<Quote>>
        IN
            Flatten([i \in 1..Len(record) |->
                       (IF i > 1 THEN <<Comma>> ELSE <<>>) \o csvWriteField(record[i])])
              \o <<Newline>>

\* func (e *Exporter) getHeader()
getHeader(e) ==
    CASE e.ColorFormat = csvFormatHex -> << <<78, 97, 109, 101>>, <<72, 101, 120>> >>
      [] e.ColorFormat = csvFormatCMYK ->
           << <<78, 97, 109, 101>>, <<67>>, <<77>>, <<89>>, <<75>> >>
      [] e.ColorFormat = csvFormatHSB -> << <<78, 97, 109, 101>>, <<72>>, <<83>>, <<66>> >>
      [] e.ColorFormat = csvFormatLAB -> << <<78, 97, 109, 101>>, <<76>>, <<65>>, <<66>> >>
      [] OTHER -> << <<78, 97, 109, 101>>, <<82>>, <<71>>, <<66>> >>

\* func (e *Exporter) formatColor(namedColor): the set of records, one per
\* value the conversion can return (the float format is not modelled)
formatColor(e, nc) ==
    LET name == IF nc.Name = <<>> THEN ColorString(nc.Color) ELSE nc.Name
    IN CASE e.ColorFormat = csvFormatHex ->
              {<<name, <<35>> \o Hex2(rgb.R) \o Hex2(rgb.G) \o Hex2(rgb.B)>> :
                 rgb \in ToRGB(nc.Color)}
         [] e.ColorFormat = csvFormatCMYK ->
              {<<name, Digits(cmyk.C), Digits(cmyk.M), Digits(cmyk.Y), Digits(cmyk.K)>> :
                 cmyk \in ToCMYK(nc.Color)}
         [] e.ColorFormat = csvFormatHSB ->
              {<<name, Digits(hsb.H), Digits(hsb.S), Digits(hsb.B)>> : hsb \in ToHSB(nc.Color)}
         [] e.ColorFormat = csvFormatLAB ->
              {<<name, FormatInt(lab.L), FormatInt(lab.A), FormatInt(lab.B)>> :
                 lab \in ToLAB(nc.Color)}
         [] OTHER ->
              {<<name, Digits(rgb.R), Digits(rgb.G), Digits(rgb.B)>> : rgb \in ToRGB(nc.Color)}

\* func (e *Exporter) Export(p, w): the set of texts written
csvExport(e, p) ==
    {(IF e.IncludeHeader THEN csvWriteRecord(getHeader(e)) ELSE <<>>)
       \o Flatten([i \in 1..Len(records) |-> csvWriteRecord(records[i])]) :
     records \in SeqProduct([i \in 1..Len(p.Colors) |-> formatColor(e, p.Colors[i])])}

\* the k-th smallest element of a set of integers
Nth(S, k) == CHOOSE i \in S : Cardinality({j \in S : j < i}) = k - 1

\* the ranges <<from, to>> that the separators at the positions seps cut
\* out of lo..hi
Ranges(lo, hi, seps) ==
    [k \in 1..(Cardinality(seps) + 1) |->
       <<IF k = 1 THEN lo ELSE Nth(seps, k - 1) + 1,
         IF k = Cardinality(seps) + 1 THEN hi ELSE Nth(seps, k) - 1>>]

\* func (r *Reader) ReadAll() of encoding/csv: [ok, records].  Newlines and
\* commas outside quotes end records and fields, empty lines are skipped,
\* and every record must have as many fields as the first
ReadAll(text) ==
    LET \* one field as encoding/csv reads it: [ok, s].  A field without quotes is
        \* taken as it is; a field in quotes has its doubled quotes undoubled; a
        \* quote anywhere else is an error
        csvReadField(raw) ==
            LET n == Len(raw)
                inner == {i \in 2..(n - 1) : raw[i] = Quote}
                rank(q) == Cardinality({j \in inner : j < q})
                kept == {i \in 2..(n - 1) : ~(raw[i] = Quote /\ rank(i) % 2 = 1)}
            IN IF \A i \in 1..n : raw[i] # Quote THEN [ok |-> TRUE, s |-> raw]
               ELSE IF n >= 2 /\ raw[1] = Quote /\ raw[n] = Quote
                       /\ \A q \in inner : IF rank(q) % 2 = 0 THEN q + 1 \in inner ELSE q - 1 \in inner
               THEN [ok |-> TRUE, s |-> [k \in 1..Cardinality(kept) |-> raw[Nth(kept, k)]]]
               ELSE [ok |-> FALSE, s |-> <<>>]
    IN
        LET quotes == {i \in 1..Len(text) : text[i] = Quote}
            inQuotes(i) == Cardinality({q \in quotes : q < i}) % 2 = 1
            breaks == {i \in 1..Len(text) : text[i] = Newline /\ ~inQuotes(i)}
            lines == SelectSeq(Ranges(1, Len(text), breaks), LAMBDA r : r[1] <= r[2])
            fields(line) ==
                LET commas == {i \in line[1]..line[2] : text[i] = Comma /\ ~inQuotes(i)}
                    ranges == Ranges(line[1], line[2], commas)
                IN [k \in 1..Len(ranges) |-> csvReadField(SubSeq(text, ranges[k][1], ranges[k][2]))]
            parsed == [l \in 1..Len(lines) |-> fields(lines[l])]
        IN IF \/ Cardinality(quotes) % 2 = 1
              \/ \E l \in 1..Len(parsed) : \E k \in 1..Len(parsed[l]) : ~parsed[l][k].ok
              \/ \E l \in 1..Len(parsed) : Len(parsed[l]) # Len(parsed[1])
           THEN [ok |-> FALSE, records |-> <<>>]
           ELSE [ok |-> TRUE,
                 records |-> [l \in 1..Len(parsed) |->
                                [k \in 1..Len(parsed[l]) |-> parsed[l][k].s]]]

\* strings.TrimSpace
TrimSpace(s) ==
    LET kept == {i \in 1..Len(s) : ~IsSpace(s[i])}
    IN IF kept = {} THEN <<>>
       ELSE SubSeq(s, CHOOSE i \in kept : \A j \in kept : i <= j,
                      CHOOSE i \in kept : \A j \in kept : i >= j)

\* strconv.ParseFloat(s, 64) returns no error: an optionally signed decimal
\* number with optional fraction and exponent, or inf, infinity, nan
\* (hexadecimal floats and out-of-range exponents are not modelled)
IsFloat(s) ==
    LET LowerASCII(t) == [i \in 1..Len(t) |-> IF t[i] >= 65 /\ t[i] <= 90 THEN t[i] + 32 ELSE t[i]]
    IN
        LET body == IF s # <<>> /\ s[1] \in {43, 45} THEN Tail(s) ELSE s
            isDigits(t) == \A i \in 1..Len(t) : IsDigit(t[i])
            epos == {i \in 1..Len(body) : body[i] \in {69, 101}}
            mant == IF epos = {} THEN body
                    ELSE SubSeq(body, 1, (CHOOSE i \in epos : \A j \in epos : i <= j) - 1)
            exp == IF epos = {} THEN <<>>
                   ELSE SubSeq(body, (CHOOSE i \in epos : \A j \in epos : i <= j) + 1, Len(body))
            expDigits == IF exp # <<>> /\ exp[1] \in {43, 45} THEN Tail(exp) ELSE exp
            dots == {i \in 1..Len(mant) : mant[i] = 46}
            mantDigits == SelectSeq(mant, LAMBDA r : r # 46)
        IN \/ LowerASCII(body) \in {<<105, 110, 102>>, <<105, 110, 102, 105, 110, 105, 116, 121>>}
           \/ LowerASCII(s) = <<110, 97, 110>>
           \/ /\ Cardinality(dots) <= 1
              /\ mantDigits # <<>> /\ isDigits(mantDigits)
              /\ epos = {} \/ (expDigits # <<>> /\ isDigits(expDigits))

uintError == [ok |-> FALSE, n |-> 0]

\* strconv.ParseUint(s, 10, bits): digits only, value below 2^bits
ParseUint10(s, max) ==
    LET RECURSIVE V(_, _)
        V(i, acc) == IF i > Len(s) THEN acc
                     ELSE IF acc > max THEN acc
                     ELSE V(i + 1, acc * 10 + (s[i] - 48))
    IN IF s = <<>> \/ \E i \in 1..Len(s) : ~IsDigit(s[i]) THEN uintError
       ELSE IF V(1, 0) > max THEN uintError
       ELSE [ok |-> TRUE, n |-> V(1, 0)]

\* strconv.ParseUint(s, 16, 8) of two bytes
ParseHexByte(bs) ==
    IF \E i \in 1..Len(bs) : HexValue(bs[i]) < 0 THEN uintError
    ELSE [ok |-> TRUE, n |-> 16 * HexValue(bs[1]) + HexValue(bs[2])]

csvColorError == [ok |-> FALSE, color |-> NULL]

\* func (i *Importer) detectFormat(record)
detectFormat(record) ==
    LET firstField == TrimSpace(record[1])
        lastField == TrimSpace(record[Len(record)])
        numericCols == Cardinality({i \in 1..Len(record) : IsFloat(TrimSpace(record[i]))})
    IN IF Len(record) = 0 THEN csvFormatRGB
       ELSE IF (firstField # <<>> /\ firstField[1] = 35) \/ (lastField # <<>> /\ lastField[1] = 35)
       THEN csvFormatHex
       ELSE IF numericCols = 4 THEN csvFormatCMYK
       ELSE csvFormatRGB

\* func (i *Importer) parseHexColor(fields)
csvParseHexColor(fields) ==
    LET hashed == {i \in 1..Len(fields) :
                     TrimSpace(fields[i]) # <<>> /\ TrimSpace(fields[i])[1] = 35}
    IN IF hashed = {} THEN csvColorError
       ELSE LET hexStr == Utf8Bytes(Tail(TrimSpace(
                             fields[CHOOSE i \in hashed : \A j \in hashed : i <= j])))
            IN IF Len(hexStr) # 6 THEN csvColorError
               ELSE LET r == ParseHexByte(SubSeq(hexStr, 1, 2))
                        g == ParseHexByte(SubSeq(hexStr, 3, 4))
                        b == ParseHexByte(SubSeq(hexStr, 5, 6))
                    IN IF r.ok /\ g.ok /\ b.ok
                       THEN [ok |-> TRUE, color |-> NewRGB(r.n, g.n, b.n)]
                       ELSE csvColorError

\* func (i *Importer) parseRGBColor(fields, false)
parseRGBColor(fields) ==
    IF Len(fields) < 3 THEN csvColorError
    ELSE LET v == [i \in 1..3 |-> ParseUint10(TrimSpace(fields[i]), 255)]
         IN IF \A i \in 1..3 : v[i].ok
            THEN [ok |-> TRUE, color |-> NewRGB(v[1].n, v[2].n, v[3].n)]
            ELSE csvColorError

\* func (i *Importer) parseCMYKColor(fields)
parseCMYKColor(fields) ==
    IF Len(fields) < 4 THEN csvColorError
    ELSE LET v == [i \in 1..4 |-> ParseUint10(TrimSpace(fields[i]), 255)]
         IN IF \A i \in 1..4 : v[i].ok
            THEN [ok |-> TRUE, color |-> NewCMYK(v[1].n, v[2].n, v[3].n, v[4].n)]
            ELSE csvColorError

\* func (i *Importer) parseColor(fields, format) for the formats that
\* detectFormat can return
parseColor(fields, format) ==
    CASE format = csvFormatHex -> csvParseHexColor(fields)
      [] format = csvFormatRGB -> parseRGBColor(fields)
      [] format = csvFormatCMYK -> parseCMYKColor(fields)
      [] OTHER -> csvColorError

\* func (i *Importer) parseRow(record, format): [ok, name, color]
parseRow(record, format) ==
    LET n == Len(record)
        nameFirst == ~IsFloat(TrimSpace(record[1]))
        nameLast == ~nameFirst /\ n > 3 /\ ~IsFloat(TrimSpace(record[n]))
        colorName == IF nameFirst THEN TrimSpace(record[1])
                     ELSE IF nameLast THEN TrimSpace(record[n]) ELSE <<>>
        colorData == IF nameFirst THEN Tail(record)
                     ELSE IF nameLast THEN SubSeq(record, 1, n - 1) ELSE record
        c == parseColor(colorData, format)
    IN IF ~c.ok THEN [ok |-> FALSE, name |-> <<>>, color |-> NULL]
       ELSE [ok |-> TRUE,
             name |-> IF colorName = <<>> THEN ColorString(c.color) ELSE colorName,
             color |-> c.color]

MetaColorFormat(n) == [t |-> "csv.ColorFormat", n |-> n, s |-> <<>>]

\* func (i *Importer) Import(r) with i = NewImporter(): comma, header, auto
csvImport(text) ==
    LET read == ReadAll(text)
        records == read.records
        startRow == 1
        format == detectFormat(records[startRow + 1])
        rows == [k \in 1..(Len(records) - startRow) |-> parseRow(records[startRow + k], format)]
    IN IF ~read.ok \/ Len(records) = 0 \/ Len(records) <= startRow THEN ImportError
       ELSE IF \E k \in 1..Len(rows) : ~rows[k].ok THEN ImportError
       ELSE [ok |-> TRUE, Description |-> <<>>,
             Name |-> <<67, 83, 86, 32, 73, 109, 112, 111, 114, 116>>,      \* "CSV Import"
             Colors |-> [k \in 1..Len(rows) |->
                           [Name |-> rows[k].name, Color |-> rows[k].color]],
             metadata |-> [k \in {"format", "color_format"} |->
                             IF k = "format" THEN MetaString(<<67, 83, 86>>)     \* "CSV"
                             ELSE MetaColorFormat(format)]]

(***************************************************************************)
(* SpecCSV: a palette is exported by a CSV exporter and the text is        *)
(* imported by the default importer.                                       *)
(***************************************************************************)
MaxCSVColors == 2       \* longest palette exported as CSV

\* color names: "", "A", "42", "#1", "a,b", " x" and a name with a quote
CSVNames == {<<>>, <<65>>, <<52, 50>>, <<35, 49>>, <<97, 44, 98>>, <<32, 120>>, <<34, 113>>}
CSVColors == {NewRGB(255, 0, 0), NewRGB(0, 9, 100), NewCMYK(0, 50, 100, 30)}

\* NewExporter() and exporters of the other formats the importer detects
CSVExporters ==
    {[format |-> "csv", IncludeHeader |-> ih, ColorFormat |-> cf] :
        ih \in BOOLEAN, cf \in {csvFormatRGB, csvFormatHex, csvFormatCMYK}}

InitCSV ==
    /\ \E cs \in SeqOfUpTo(NamedColors(CSVNames, CSVColors), MaxCSVColors) :
          pal = MakePalette(<<84>>, <<>>, cs, NoMetadata)
    /\ codec = NULL /\ data = <<>> /\ imp = NULL /\ pc = "start"
    /\ IdlePalette /\ IdleColor

\* e.Export(p, w)
ExportCSV ==
    /\ pc = "start"
    /\ \E e \in CSVExporters :
         /\ codec' = e
         /\ \E text \in csvExport(e, pal) : data' = text
    /\ pc' = "exported"
    /\ UNCHANGED <<pal, imp, paletteVars, colorVars>>

\* NewImporter().Import(r)
ImportCSV ==
    /\ pc = "exported" /\ codec.format = "csv"
    /\ imp' = csvImport(data)
    /\ pc' = "imported"
    /\ UNCHANGED <<pal, codec, data, paletteVars, colorVars>>

NextCSV == ExportCSV \/ ImportCSV

SpecCSV == InitCSV /\ [][NextCSV]_vars

AllRGB(p) == \A i \in 1..Len(p.Colors) : p.Colors[i].Color.cs = "RGB"

\* C6: for every palette of RGB colors, whatever its size and its color
\* names, the default importer reads the text of the default RGB exporter
\* and yields as many colors with the same RGB value at every index.
C6_CSVRoundTrip ==
    (pc = "imported" /\ codec.format = "csv" /\ codec.IncludeHeader
        /\ codec.ColorFormat = csvFormatRGB /\ AllRGB(pal))
        => (imp.ok /\ SameColors(pal, imp))


(***************************************************************************)
(* SpecFiles: a JSON document or a CSV text written by another program is  *)
(* imported.  Some of its color entries or data rows are ones the codec    *)
(* cannot interpret.                                                       *)
(***************************************************************************)
MaxFileEntries == 2     \* most color entries or data rows in a file

\* color entries the JSON importer interprets: {"name":"A","rgb":{...}},
\* {"hex":"#00FF00"}, {"name":"B","color_space":"CMYK","values":[0,50,100,30]}
GoodEntries ==
    {JObject([f \in {"name", "rgb"} |->
        IF f = "name" THEN JString(<<65>>)
        ELSE JObject([x \in {"r", "g", "b"} |->
                JNumber(CASE x = "r" -> 255 [] x = "g" -> 128 [] x = "b" -> 1)])]),
     JObject([f \in {"hex"} |-> JString(<<35, 48, 48, 70, 70, 48, 48>>)]),
     JObject([f \in {"name", "color_space", "values"} |->
        CASE f = "name" -> JString(<<66>>)
          [] f = "color_space" -> JString(<<67, 77, 89, 75>>)
          [] f = "values" -> JArray(<<JNumber(0), JNumber(50), JNumber(100), JNumber(30)>>)])}

\* color entries it cannot interpret: {"name":"C","hex":"#GG0000"} (not
\* hexadecimal), {"name":"D"} (no color data), {"rgb":{"r":300,"g":0,"b":0}}
\* (300 is no uint8), {"color_space":"RGB","values":[1,2]} (too few values)
BadEntries ==
    {JObject([f \in {"name", "hex"} |->
        IF f = "name" THEN JString(<<67>>) ELSE JString(<<35, 71, 71, 48, 48, 48, 48>>)]),
     JObject([f \in {"name"} |-> JString(<<68>>)]),
     JObject([f \in {"rgb"} |->
        JObject([x \in {"r", "g", "b"} |-> JNumber(IF x = "r" THEN 300 ELSE 0)])]),
     JObject([f \in {"color_space", "values"} |->
        IF f = "color_space" THEN JString(<<82, 71, 66>>)
        ELSE JArray(<<JNumber(1), JNumber(2)>>)])}

\* palette names "P" and "Facade"
FileTitles == {<<80>>, <<70, 97, 99, 97, 100, 101>>}

\* data rows the CSV importer interprets: A,255,0,0 and B,0,9,100
GoodRows ==
    {<<<<65>>, Digits(255), Digits(0), Digits(0)>>,
     <<<<66>>, Digits(0), Digits(9), Digits(100)>>}

\* data rows it cannot interpret: C,300,0,0 and D,x,0,0 and E,1.5,0,0
BadRows ==
    {<<<<67>>, Digits(300), Digits(0), Digits(0)>>,
     <<<<68>>, <<120>>, Digits(0), Digits(0)>>,
     <<<<69>>, <<49, 46, 53>>, Digits(0), Digits(0)>>}

InitFiles ==
    /\ pal = NULL /\ codec = NULL /\ data = <<>> /\ imp = NULL /\ pc = "start"
    /\ IdlePalette /\ IdleColor

\* a palette object or a color array arrives
ReceiveJSON ==
    /\ pc = "start"
    /\ \E es \in SeqOfUpTo(GoodEntries \cup BadEntries, MaxFileEntries) :
         /\ codec' = [format |-> "json", by |-> "file",
                      bad |-> \E i \in 1..Len(es) : es[i] \in BadEntries]
         /\ \/ \E t \in FileTitles :
                 data' = [indent |-> FALSE,
                          value |-> JObject([f \in {"name", "colors"} |->
                                      IF f = "name" THEN JString(t) ELSE JArray(es)])]
            \/ data' = [indent |-> FALSE, value |-> JArray(es)]
    /\ pc' = "exported"
    /\ UNCHANGED <<pal, imp, paletteVars, colorVars>>

\* objects that are neither a palette nor a color: {"red": "#FF0000"},
\* {"blue": [0, 0, 255]}, both keys in one object, and {"red": "crimson"}
GenericDocuments ==
    LET values(key) ==
            IF key = "red" THEN {JString(<<35, 70, 70, 48, 48, 48, 48>>),
                                 JString(<<99, 114, 105, 109, 115, 111, 110>>)}
            ELSE {JArray(<<JNumber(0), JNumber(0), JNumber(255)>>)}
    IN UNION {{JObject(f) : f \in {g \in [keys -> UNION {values(k) : k \in keys}] :
                                     \A k \in keys : g[k] \in values(k)}} :
                keys \in (SUBSET {"red", "blue"}) \ {{}}}

\* a JSON object of color values under keys of the sender's choosing arrives
ReceiveGeneric ==
    /\ pc = "start"
    /\ \E v \in GenericDocuments, indent \in BOOLEAN :
         data' = [indent |-> indent, value |-> v]
    /\ codec' = [format |-> "json", by |-> "generic", bad |-> FALSE]
    /\ pc' = "exported"
    /\ UNCHANGED <<pal, imp, paletteVars, colorVars>>

\* a CSV text with the header Name,R,G,B arrives
ReceiveCSV ==
    /\ pc = "start"
    /\ \E rows \in SeqOfUpTo(GoodRows \cup BadRows, MaxFileEntries) :
         /\ codec' = [format |-> "csv", by |-> "file",
                      bad |-> \E i \in 1..Len(rows) : rows[i] \in BadRows]
         /\ data' = csvWriteRecord(getHeader([ColorFormat |-> csvFormatRGB]))
                      \o Flatten([i \in 1..Len(rows) |-> csvWriteRecord(rows[i])])
    /\ pc' = "exported"
    /\ UNCHANGED <<pal, imp, paletteVars, colorVars>>

NextFiles == ReceiveJSON \/ ReceiveGeneric \/ ReceiveCSV \/ ImportJSON \/ ImportCSV

SpecFiles == InitFiles /\ [][NextFiles]_vars

\* C11: when a data row of a CSV input, or a color entry of a JSON palette
\* object or color array, cannot be interpreted, the import returns an error
\* and no palette.
C11_NoPartialImport == (pc = "imported" /\ codec.by = "file" /\ codec.bad) => ~imp.ok


(***************************************************************************)
(* SpecWriters: a palette is exported to a writer of the caller that may   *)
(* return an error from Write.  pc is "exported" when Export returned nil  *)
(* and "failed" when it returned an error; codec.werr tells whether the    *)
(* writer returned an error during the call, data what the writer took.    *)
(***************************************************************************)
\* a writer that takes everything and one whose every Write fails
Writers == {[fails |-> FALSE], [fails |-> TRUE]}

\* size of the bufio.Writer inside the csv.Writer
BufSize == 4096

\* colorbook.NewExporter().Export(p, w): one w.Write of the marshalled book
ExportToACB ==
    /\ pc = "start"
    /\ NoLabConversion(pal)
    /\ \E w \in Writers, r \in bookExport(pal) :
         /\ codec' = [format |-> "acb", by |-> "Writer", werr |-> r.ok /\ w.fails]
         /\ data' = IF r.ok /\ ~w.fails THEN r.data ELSE <<>>
         /\ pc' = IF r.ok /\ ~w.fails THEN "exported" ELSE "failed"
    /\ UNCHANGED <<pal, imp, paletteVars, colorVars>>

\* colorswatch.NewExporter().Export(p, w): one w.Write of the marshalled
\* swatch
ExportToACO ==
    /\ pc = "start"
    /\ \E w \in Writers, v \in {Version1, Version2} :
         /\ codec' = [format |-> "aco", by |-> "Writer", werr |-> w.fails]
         /\ data' = IF w.fails THEN <<>> ELSE swatchExport([Version |-> v], pal)
         /\ pc' = IF w.fails THEN "failed" ELSE "exported"
    /\ UNCHANGED <<pal, imp, paletteVars, colorVars>>

\* e.Export(p, w) of the CSV exporter.  The csv.Writer writes into a
\* bufio.Writer: w.Write is called while records are written only once more
\* than BufSize bytes have been written, and csvWriter.Write returns an
\* error only then; whatever is left goes to w in the deferred Flush, whose
\* error Export does not read.
ExportToCSV ==
    /\ pc = "start"
    /\ \E w \in Writers, e \in CSVExporters : \E text \in csvExport(e, pal) :
         /\ codec' = [format |-> "csv", by |-> "Writer", werr |-> w.fails /\ Len(text) > 0]
         /\ data' = IF w.fails THEN <<>> ELSE text
         /\ pc' = IF w.fails /\ Len(text) > BufSize THEN "failed" ELSE "exported"
    /\ UNCHANGED <<pal, imp, paletteVars, colorVars>>

\* e.Export(p, w) of the JSON exporter: one w.Write of the marshalled
\* document
ExportToJSON ==
    /\ pc = "start"
    /\ \E w \in Writers, e \in JSONExporters : \E doc \in jsonExport(e, pal) :
         /\ codec' = [format |-> "json", by |-> "Writer", werr |-> w.fails]
         /\ data' = IF w.fails THEN <<>> ELSE doc
         /\ pc' = IF w.fails THEN "failed" ELSE "exported"
    /\ UNCHANGED <<pal, imp, paletteVars, colorVars>>

NextWriters == ExportToACB \/ ExportToACO \/ ExportToCSV \/ ExportToJSON

SpecWriters == InitCSV /\ [][NextWriters]_vars

\* C12: when the caller's writer returns an error while an exporter writes
\* a palette, the export call returns an error.
C12_FailedWriteIsReported ==
    (pc \in {"exported", "failed"} /\ codec.werr) => pc = "failed"


\* palettes with the name, the number of colors and the first color's name
\* of p, and another description, other colors, other names and metadata
BookVariants(p) ==
    {MakePalette(p.Name, d,
                 [i \in 1..Len(p.Colors) |->
                    [Name |-> IF i = 1 THEN p.Colors[1].Name ELSE <<90>>,
                     Color |-> NewRGB(1, 2, 3)]],
                 m) :
        d \in {<<>>, <<88>>},
        m \in {NoMetadata, OneMeta("color_type", MetaColorType(ColorTypeCMYK))}}

GeneratedBookID == pc = "exported" /\ ByExporter("acb") /\ ~HasMeta(pal, "book_id")

\* C13: without book_id in the metadata, the BookID that the ACB export
\* writes lies in 4000..65534, and every palette with the same name, number
\* of colors and first color name is written with the same BookID.
C13_BookIDGenerated ==
    GeneratedBookID =>
        /\ ReadU16(data, 6) \in 4000..65534
        /\ \A q \in BookVariants(pal) : \A r \in bookExport(q) :
              r.ok /\ ReadU16(r.data, 6) = ReadU16(data, 6)

C13_Witness ==
    /\ GeneratedBookID /\ Len(pal.Colors) = 2
    /\ pal.Colors[2].Name # <<90>> /\ pal.Colors[1].Color # NewRGB(1, 2, 3)
    /\ ReadU16(data, 6) >= 4000


(***************************************************************************)
(* SpecConvert: the command-line conversion (cmd/palette/shared) and the   *)
(* color-space mapping of a palette.  pal is the palette another program   *)
(* stored in the input file; after ConvertFile, codec holds the arguments  *)
(* of the call, imp its outcome and data the output file.                  *)
(***************************************************************************)
MaxConvertColors == 2   \* longest palette stored in an input file

\* strings.ToLower on the runes of the model's alphabet
ToLower(s) == [i \in 1..Len(s) |-> IF s[i] >= 65 /\ s[i] <= 90 THEN s[i] + 32 ELSE s[i]]

\* filepath.Ext(path): the suffix from the last dot of the last element
Ext(name) ==
    LET dots == {i \in 1..Len(name) :
                   name[i] = 46 /\ \A j \in i..Len(name) : name[j] # 47}
    IN IF dots = {} THEN <<>>
       ELSE SubSeq(name, CHOOSE i \in dots : \A j \in dots : i >= j, Len(name))

ExtACB == <<46, 97, 99, 98>>        \* ".acb"
ExtACO == <<46, 97, 99, 111>>       \* ".aco"
ExtCSV == <<46, 99, 115, 118>>      \* ".csv"
ExtJSON == <<46, 106, 115, 111, 110>>                                      \* ".json"

\* a normalizeFormat that leaves the format as the caller wrote it
normalizeFormatVerbatim(format) == format

\* func normalizeFormat(format)
normalizeFormat(format) ==
    LET f == ToLower(TrimSpace(format))
    IN IF f # <<>> /\ f[1] = 46 THEN f
       ELSE IF f \in {Tail(ExtACB), <<99, 111, 108, 111, 114, 98, 111, 111, 107>>}
       THEN ExtACB                                       \* "acb", "colorbook"
       ELSE IF f \in {Tail(ExtACO), <<115, 119, 97, 116, 99, 104>>,
                      <<99, 111, 108, 111, 114, 115, 119, 97, 116, 99, 104>>}
       THEN ExtACO                         \* "aco", "swatch", "colorswatch"
       ELSE IF f = Tail(ExtCSV) THEN ExtCSV
       ELSE IF f = Tail(ExtJSON) THEN ExtJSON
       ELSE IF f = <<97, 112, 112, 108, 105, 99, 97, 116, 105, 111, 110, 47>> \o Tail(ExtJSON)
       THEN ExtJSON                                      \* "application/json"
       ELSE IF f = <<116, 101, 120, 116, 47>> \o Tail(ExtCSV)
       THEN ExtCSV                                       \* "text/csv"
       ELSE f

\* the codecs that package palette/all registers with the default registry
\* at startup, each built by its NewImporter() / NewExporter()
DefaultRegistry == {"colorbook", "colorswatch", "csv", "json"}

\* func Import(reader, format) on the default registry: the set of outcomes
registryImport(file, format) ==
    LET f == normalizeFormat(format)
    IN IF f = ExtACB /\ "colorbook" \in DefaultRegistry THEN {bookImport(file)}
       ELSE IF f = ExtACO /\ "colorswatch" \in DefaultRegistry THEN {swatchImport(file)}
       ELSE IF f = ExtCSV /\ "csv" \in DefaultRegistry THEN {csvImport(file)}
       ELSE IF f = ExtJSON /\ "json" \in DefaultRegistry THEN jsonImport(file)
       ELSE {ImportError}

\* func Export(p, writer, format) on the default registry: the set of
\* outcomes [ok, data]
registryExport(p, format) ==
    LET f == normalizeFormat(format)
        written(S) == {[ok |-> TRUE, data |-> d] : d \in S}
    IN IF f = ExtACB /\ "colorbook" \in DefaultRegistry THEN bookExport(p)
       ELSE IF f = ExtACO /\ "colorswatch" \in DefaultRegistry
       THEN written({swatchExport([Version |-> Version2], p)})
       ELSE IF f = ExtCSV /\ "csv" \in DefaultRegistry
       THEN written(csvExport([format |-> "csv", IncludeHeader |-> TRUE,
                               ColorFormat |-> csvFormatRGB], p))
       ELSE IF f = ExtJSON /\ "json" \in DefaultRegistry
       THEN written(jsonExport(JSONExporter(TRUE, TRUE, FormatRGB + FormatHex), p))
       ELSE {[ok |-> FALSE, data |-> <<>>]}

StrRGB == <<82, 71, 66>>            \* "RGB"
StrCMYK == <<67, 77, 89, 75>>       \* "CMYK"
StrLAB == <<76, 65, 66>>            \* "LAB"
StrHSB == <<72, 83, 66>>            \* "HSB"

\* a ConvertToColorSpace that maps no color when the name is unknown
ConvertToColorSpaceOrEmpty(p, colorSpace) ==
    LET cs == ToUpper(colorSpace)
        mapper(c) == CASE cs = StrRGB -> ToRGB(c)
                       [] cs = StrCMYK -> ToCMYK(c)
                       [] cs = StrLAB -> ToLAB(c)
                       [] cs = StrHSB -> ToHSB(c)
        colors == IF cs \in {StrRGB, StrCMYK, StrLAB, StrHSB} THEN p.Colors ELSE <<>>
    IN {MakePalette(p.Name \o <<32, 40, 109, 97, 112, 112, 101, 100, 41>>,
                    p.Description,
                    [i \in 1..Len(colors) |-> [Name |-> colors[i].Name, Color |-> cc[i]]],
                    NoMetadata) :
          cc \in SeqProduct([i \in 1..Len(colors) |-> mapper(colors[i].Color)])}

\* func (p *Palette) ConvertToColorSpace(colorSpace): the set of palettes
\* p.Map may return, named p.Name + " (mapped)" and without metadata
ConvertToColorSpace(p, colorSpace) ==
    LET cs == ToUpper(colorSpace)
        mapper(c) == CASE cs = StrRGB -> ToRGB(c)
                       [] cs = StrCMYK -> ToCMYK(c)
                       [] cs = StrLAB -> ToLAB(c)
                       [] cs = StrHSB -> ToHSB(c)
                       [] OTHER -> {c}
    IN {MakePalette(p.Name \o <<32, 40, 109, 97, 112, 112, 101, 100, 41>>,
                    p.Description,
                    [i \in 1..Len(p.Colors) |-> [Name |-> p.Colors[i].Name, Color |-> cc[i]]],
                    NoMetadata) :
          cc \in SeqProduct([i \in 1..Len(p.Colors) |-> mapper(p.Colors[i].Color)])}

\* func ConvertFile(inputPath, outputPath, fromFormat, toFormat, colorSpace,
\* bookID) with file the content of inputPath: the set of outcomes
\* [ok, toFormat, written, created] and, when a file was written, p and out
\* (both files can be opened); created tells that os.Create(outputPath) ran
convertFile(inputPath, file, outputPath, from0, to0, colorSpace, bookID) ==
    LET dotted(f) == IF f # <<>> /\ f[1] # 46 THEN <<46>> \o f ELSE f
        fromFormat == dotted(IF from0 = <<>> THEN Ext(inputPath) ELSE from0)
        toFormat == dotted(IF to0 = <<>> THEN Ext(outputPath) ELSE to0)
        fail == [ok |-> FALSE, toFormat |-> toFormat, written |-> FALSE, created |-> FALSE]
        id == ParseUint10(bookID, 65535)
        export(p) ==
            {IF r.ok THEN [ok |-> TRUE, toFormat |-> toFormat, written |-> TRUE,
                           created |-> TRUE, p |-> p, out |-> r.data]
             ELSE [fail EXCEPT !.created = TRUE] : r \in registryExport(p, toFormat)}
        identify(p) ==
            IF bookID # <<>> /\ toFormat \in {ExtACB, ToUpper(ExtACB)}
            THEN IF ~id.ok \/ id.n < 4000 \/ id.n > 65535 THEN {fail}
                 ELSE export([p EXCEPT !.metadata =
                                 [k \in DOMAIN p.metadata \cup {"book_id"} |->
                                    IF k = "book_id" THEN MetaBookID(id.n)
                                    ELSE p.metadata[k]]])
            ELSE export(p)
        convert(q) ==
            IF ~q.ok THEN {fail}
            ELSE LET p == MakePalette(q.Name, q.Description, q.Colors, q.metadata)
                 IN IF colorSpace # <<>>
                    THEN UNION {identify(c) : c \in ConvertToColorSpace(p, colorSpace)}
                    ELSE identify(p)
    IN IF fromFormat = <<>> \/ toFormat = <<>> THEN {fail}
       ELSE UNION {convert(q) : q \in registryImport(file, fromFormat)}

\* palettes of the model's colors, with and without a book id
ConvertPalettes ==
    {MakePalette(<<84>>, <<>>, cs, m) :
        cs \in SeqOfUpTo(NamedColors({<<65>>}, {NewRGB(255, 0, 0), NewCMYK(0, 50, 100, 30),
                                                NewLAB(50, -128, 127)}),
                         MaxConvertColors),
        m \in {NoMetadata, OneMeta("book_id", MetaBookID(4242))}}

\* "a.csv" and "a.acb" with the palette as the default exporters write it
InputFiles(p) ==
    {[path |-> <<97>> \o ExtCSV, content |-> t] : t \in {r.data : r \in registryExport(p, ExtCSV)}}
    \cup {[path |-> <<97>> \o ExtACB, content |-> r.data] :
            r \in {x \in registryExport(p, ExtACB) : x.ok}}

OutputPaths == {<<100, 47, 111, 46, 65, 99, 98>>, <<100, 46, 100, 47, 111>>}  \* "d/o.Acb", "d.d/o"
\* "", "x"
FromFormats == {<<>>, <<120>>}
\* "", ".acb", ".ACB", "aCb", "json", ".csv", ".xyz"
ToFormats == {<<>>, ExtACB, ToUpper(ExtACB), <<97, 67, 98>>, Tail(ExtJSON), ExtCSV,
              <<46, 120, 121, 122>>}
\* "", "RGB", "cmyk", "Hsb", "XYZ", "rgb "
ColorSpaceArgs == {<<>>, StrRGB, ToLower(StrCMYK), <<72, 115, 98>>, <<88, 89, 90>>,
                   <<114, 103, 98, 32>>}
\* "", "4000", "65535", "5000", "3999", "65536", "abc", "+5000"
BookIDArgs == {<<>>, Digits(4000), Digits(65535), Digits(5000), Digits(3999),
               Digits(65536), <<97, 98, 99>>, <<43>> \o Digits(5000)}

\* the Lab conversions are not modelled: a palette is converted when no
\* color has to cross between LAB and another variant
CrossesLab(p, colorSpace) ==
    /\ ToUpper(colorSpace) \in {StrRGB, StrCMYK, StrLAB, StrHSB}
    /\ \E i \in 1..Len(p.Colors) :
          (p.Colors[i].Color.cs = "LAB") # (ToUpper(colorSpace) = StrLAB)

InitConvert ==
    /\ pal \in ConvertPalettes
    /\ codec = NULL /\ data = <<>> /\ imp = NULL /\ pc = "start"
    /\ IdlePalette /\ IdleColor

\* shared.ConvertFile(inputPath, outputPath, fromFormat, toFormat,
\* colorSpace, bookID)
ConvertFile ==
    /\ pc = "start"
    /\ \A i \in 1..Len(pal.Colors) : pal.Colors[i].Color.cs # "LAB"
    /\ \E input \in InputFiles(pal), outputPath \in OutputPaths, fromFormat \in FromFormats,
          toFormat \in ToFormats, colorSpace \in ColorSpaceArgs, bookID \in BookIDArgs :
          \E r \in convertFile(input.path, input.content, outputPath, fromFormat, toFormat,
                               colorSpace, bookID) :
             /\ codec' = [by |-> "ConvertFile", toFormat |-> r.toFormat,
                          colorSpace |-> colorSpace, bookID |-> bookID]
             /\ imp' = r
             /\ data' = IF r.written THEN r.out ELSE <<>>
             /\ pc' = IF r.ok THEN "converted" ELSE "failed"
    /\ UNCHANGED <<pal, paletteVars, colorVars>>

\* q, err := p.ConvertToColorSpace(colorSpace); the error is always nil
ConvertPalette ==
    /\ pc = "start"
    /\ \E colorSpace \in ColorSpaceArgs \cup {StrLAB} :
          /\ ~CrossesLab(pal, colorSpace)
          /\ \E q \in ConvertToColorSpace(pal, colorSpace) :
                imp' = [ok |-> TRUE, p |-> q]
          /\ codec' = [by |-> "ConvertToColorSpace", colorSpace |-> colorSpace]
    /\ pc' = "mapped"
    /\ UNCHANGED <<pal, data, paletteVars, colorVars>>

NextConvert == ConvertFile \/ ConvertPalette

SpecConvert == InitConvert /\ [][NextConvert]_vars

ConvertFileReturned == pc \in {"converted", "failed"} /\ codec.by = "ConvertFile"

UnknownColorSpaceMapped ==
    /\ pc = "mapped"
    /\ ToUpper(codec.colorSpace) \notin {StrRGB, StrCMYK, StrLAB, StrHSB}

C17_NoEmptyMetadataKey ==
    \A o \in PaletteIds : Exists(o) => "" \notin DOMAIN Metadata(o)


\* json.Marshal of a metadata value, as the document shows it
MetaAsJSON(m) ==
    IF m.t = "string" THEN JString(m.s) ELSE IF m.t = "json" THEN m.v ELSE JNumber(m.n)

\* a palette with metadata was written with its metadata block and the
\* document was imported as a palette object
MetadataRoundTripDone ==
    /\ pc = "imported" /\ codec.format = "json"
    /\ codec.IncludeMetadata /\ DOMAIN pal.metadata # {}
    /\ pal.Name # <<>>
    /\ imp.ok

\* the metadata keys of the model that no codec interprets
UnknownKeys(p) == DOMAIN p.metadata \ {"format", "original_metadata"}

\* C18 as stated: every metadata key that no codec interprets is a key of
\* the re-imported palette's metadata, with the same value, after one and
\* after two round trips.
C18_KeysPreserved ==
    MetadataRoundTripDone =>
        \A k \in UnknownKeys(pal) :
            HasMeta(imp, k) /\ MetaAsJSON(imp.metadata[k]) = MetaAsJSON(pal.metadata[k])

\* C18 as amended: the metadata is preserved as a whole, not key by key.  The
\* re-imported palette's metadata has the keys format and original_metadata
\* only, and original_metadata holds the object of the exported palette's
\* metadata, every key with its JSON value; a second round trip puts the
\* object of the first one level deeper.
C18_MetadataUnderOriginal ==
    MetadataRoundTripDone =>
        /\ DOMAIN imp.metadata = {"format", "original_metadata"}
        /\ LET kept == imp.metadata["original_metadata"].v
           IN /\ kept.k = "object"
              /\ DOMAIN kept.o = DOMAIN pal.metadata
              /\ \A k \in DOMAIN pal.metadata : kept.o[k] = MetaAsJSON(pal.metadata[k])

C18_Witness ==
    /\ MetadataRoundTripDone
    /\ HasMeta(pal, "original_metadata")
    /\ Field(pal.metadata["original_metadata"].v, "k1") = JString(<<118>>)
    /\ Field(Field(imp.metadata["original_metadata"].v, "original_metadata"), "k1")
         = JString(<<118>>)
    /\ ~HasMeta(imp, "k1")


\* the key the catalog format describes: the first three characters of the
\* name in upper case, spaces up to three, and index mod 1000 in three digits
ExpectedKey(name, index) ==
    LET upper == ToUpper(name)
        n == index % 1000
    IN [j \in 1..6 |->
          IF j <= 3 THEN (IF j <= Len(upper) THEN upper[j] ELSE 32)
          ELSE 48 + ((n \div (IF j = 4 THEN 100 ELSE IF j = 5 THEN 10 ELSE 1)) % 10)]

\* C19: the catalog key that the ACB export generates for a color is six
\* ASCII bytes: the first three letters of the name in upper case, padded
\* with spaces to three, then index mod 1000 as three decimal digits.
C19_CatalogKey ==
    (pc = "exported" /\ ByExporter("acb")) =>
        \A i \in 1..Len(pal.Colors) :
            LET key == generateColorKey(pal.Colors[i].Name, i - 1)
            IN /\ Len(key) = 6
               /\ \A j \in 1..6 : key[j] \in 0..127
               /\ key = ExpectedKey(pal.Colors[i].Name, i - 1)


\* C20: every ACB file that the export writes ends with the eight bytes of
\* the spot-function suffix: "spflproc" when the book's color type is RGB or
\* CMYK, "spflspot" when it is Lab.
C20_SpotFunctionSuffix ==
    LET spflproc == <<115, 112, 102, 108, 112, 114, 111, 99>>
        spflspot == <<115, 112, 102, 108, 115, 112, 111, 116>>
    IN (pc = "exported" /\ ByExporter("acb")) =>
          /\ Len(data) >= 8
          /\ SubSeq(data, Len(data) - 7, Len(data))
               = (IF MetaOr(pal, "color_type", "ColorType", ColorTypeRGB) = ColorTypeLab
                  THEN spflspot ELSE spflproc)


(***************************************************************************)
(* SpecRegistry: importers are registered with a registry and looked up by *)
(* format, and the format of a reader's content is detected.  codec is the *)
(* registry (the formats each registered importer accepts, in the order of *)
(* registration), data the reader (its content, how far it was read, and   *)
(* how many bytes one Read returns at most), imp the outcome of the last   *)
(* call.                                                                   *)
(***************************************************************************)
MaxImporters == 2       \* most importers registered with one registry

\* importers as the tests build them: ".x"; ".json" and ".test"; "x"
ImporterFormats == {{<<46, 120>>}, {ExtJSON, <<46, 116, 101, 115, 116>>}, {<<120>>}}

\* "x", "X", ".x", ".X", " .x ", "json", " JSON ", "test", "text/csv"
LookupFormats ==
    {<<120>>, <<88>>, <<46, 120>>, <<46, 88>>, <<32, 46, 120, 32>>, Tail(ExtJSON), <<32, 74, 83, 79, 78, 32>>, <<116, 101, 115, 116>>,
     <<116, 101, 120, 116, 47, 99, 115, 118>>}

ReaderContents ==
    {<<>>, <<56, 66, 67>>, <<56, 66, 67, 66, 116, 101, 115, 116>>, <<123, 125>>, <<123, 34, 110, 97, 109, 101, 34, 58, 32, 34, 116, 101, 115, 116, 34, 125>>, <<91, 123, 34, 99, 111, 108, 111, 114, 34, 58, 32, 34, 114, 101, 100, 34, 125, 93>>,
     <<97, 44, 98>>, <<110, 97, 109, 101, 44, 114, 44, 103, 44, 98, 10, 114, 101, 100, 44, 50, 53, 53, 44, 48, 44, 48>>, <<97, 95, 114, 97, 116, 104, 101, 114, 95, 108, 111, 110, 103, 95, 110, 97, 109, 101, 44, 114, 44, 103, 44, 98, 10, 114, 101, 100, 44, 50, 53, 53, 44, 48, 44, 48>>,
     <<110, 97, 109, 101, 115, 10, 114, 101, 100, 44, 50, 53, 53, 44, 48, 44, 48>>, <<117, 110, 107, 110, 111, 119, 110, 32, 102, 111, 114, 109, 97, 116, 32, 100, 97, 116, 97>>}

\* strings.NewReader and the like return all they have; a reader may return
\* less on one Read
ReadSizes == {5, 64}

\* NewRegistry() and a reader nobody has read from
InitRegistry ==
    /\ codec = [importers |-> <<>>]
    /\ \E content \in ReaderContents, size \in ReadSizes :
          data = [content |-> content, pos |-> 0, size |-> size]
    /\ imp = NULL /\ pc = "start" /\ pal = NULL
    /\ IdlePalette /\ IdleColor

\* func (r *Registry) RegisterImporter(importer)
RegisterImporter ==
    /\ Len(codec.importers) < MaxImporters
    /\ \E formats \in ImporterFormats :
          codec' = [codec EXCEPT !.importers = Append(@, formats)]
    /\ pc' = "registered"
    /\ UNCHANGED <<pal, data, imp, paletteVars, colorVars>>

\* func (r *Registry) FindImporter(format): the first importer whose
\* CanImport accepts the normalized format
FindImporter ==
    /\ \E format \in LookupFormats :
          LET hits == {i \in 1..Len(codec.importers) :
                         normalizeFormat(format) \in codec.importers[i]}
          IN imp' = [op |-> "FindImporter", format |-> format,
                     found |-> IF hits = {} THEN [ok |-> FALSE, index |-> 0]
                               ELSE [ok |-> TRUE,
                                     index |-> CHOOSE i \in hits : \A j \in hits : i <= j]]
    /\ pc' = "found"
    /\ UNCHANGED <<pal, codec, data, paletteVars, colorVars>>

\* an AutoDetectFormat that wants one byte only
autoDetectFormatLax(reader) ==
    LET n == Min(Min(16, reader.size), Len(reader.content) - reader.pos)
        buffer == SubSeq(reader.content, reader.pos + 1, reader.pos + n)
        breaks == {i \in 1..n : buffer[i] = 10}
        firstLine == IF breaks = {} THEN buffer
                     ELSE SubSeq(buffer, 1, (CHOOSE i \in breaks : \A j \in breaks : i <= j) - 1)
    IN [read |-> n, buffer |-> buffer,
        format |-> IF n < 1 THEN <<>>
                   ELSE IF n >= 4 /\ SubSeq(buffer, 1, 4) = FileType THEN ExtACB
                   ELSE IF buffer[1] \in {123, 91} THEN ExtJSON
                   ELSE IF \E i \in 1..Len(firstLine) : firstLine[i] = 44 THEN ExtCSV
                   ELSE <<>>]

\* func (r *Registry) AutoDetectFormat(reader): one Read into a buffer of 16
\* bytes; [read, buffer, format], the format empty when an error is returned
autoDetectFormat(reader) ==
    LET n == Min(Min(16, reader.size), Len(reader.content) - reader.pos)
        buffer == SubSeq(reader.content, reader.pos + 1, reader.pos + n)
        breaks == {i \in 1..n : buffer[i] = 10}
        firstLine == IF breaks = {} THEN buffer
                     ELSE SubSeq(buffer, 1, (CHOOSE i \in breaks : \A j \in breaks : i <= j) - 1)
    IN [read |-> n, buffer |-> buffer,
        format |-> IF n < 4 THEN <<>>
                   ELSE IF SubSeq(buffer, 1, 4) = FileType THEN ExtACB
                   ELSE IF buffer[1] \in {123, 91} THEN ExtJSON
                   ELSE IF \E i \in 1..Len(firstLine) : firstLine[i] = 44 THEN ExtCSV
                   ELSE <<>>]

\* format, err := registry.AutoDetectFormat(reader) on a reader nobody has
\* read from
AutoDetectFormat ==
    /\ data.pos = 0 /\ pc \in {"start", "registered", "found"}
    /\ LET r == autoDetectFormat(data)
       IN /\ imp' = [op |-> "AutoDetectFormat", format |-> r.format, buffer |-> r.buffer]
          /\ data' = [data EXCEPT !.pos = @ + r.read]
    /\ pc' = IF imp'.format = <<>> THEN "failed" ELSE "detected"
    /\ UNCHANGED <<pal, codec, paletteVars, colorVars>>

\* an importer reads the reader to its end: io.ReadAll(r), csv.NewReader(r)
ReadAllOf ==
    /\ pc \in {"detected", "failed"}
    /\ imp' = [op |-> "ReadAll", format |-> imp.format,
               received |-> SubSeq(data.content, data.pos + 1, Len(data.content))]
    /\ data' = [data EXCEPT !.pos = Len(data.content)]
    /\ pc' = "read"
    /\ UNCHANGED <<pal, codec, paletteVars, colorVars>>

NextRegistry == RegisterImporter \/ FindImporter \/ AutoDetectFormat \/ ReadAllOf

SpecRegistry == InitRegistry /\ [][NextRegistry]_vars

\* format names the extension ext: in any letter case, with or without
\* the dot, with or without spaces around it
Names(format, ext) ==
    LET f == ToLower(TrimSpace(format))
    IN f = ext \/ <<46>> \o f = ext

Looked == pc = "found"

FirstLine(bs) ==
    LET breaks == {i \in 1..Len(bs) : bs[i] = 10}
    IN IF breaks = {} THEN bs
       ELSE SubSeq(bs, 1, (CHOOSE i \in breaks : \A j \in breaks : i <= j) - 1)

\* the format the three rules give for the bytes bs, <<>> when none applies
DetectedBy(bs) ==
    IF Len(bs) >= 4 /\ SubSeq(bs, 1, 4) = FileType THEN ExtACB
    ELSE IF Len(bs) >= 1 /\ bs[1] \in {123, 91} THEN ExtJSON
    ELSE IF \E i \in 1..Len(FirstLine(bs)) : FirstLine(bs)[i] = 44 THEN ExtCSV
    ELSE <<>>

Detected == pc \in {"detected", "failed"}

\* C22 as stated: autodetect returns .acb for content that begins with
\* 8BCB, otherwise .json for content whose first byte is '{' or '[',
\* otherwise .csv for content whose first line contains a comma, and fails
\* for all other content.
C22_AutoDetectByContent ==
    Detected => /\ imp.format = DetectedBy(data.content)
                /\ (pc = "failed") = (imp.format = <<>>)

\* C22 as amended: the rules are applied to the bytes the first Read
\* returns, at most the first 16 of the content, and autodetect fails when
\* these are fewer than four.
C22_AutoDetectByFirstRead ==
    Detected =>
        LET seen == SubSeq(data.content, 1, Min(Len(data.content), Min(16, data.size)))
        IN /\ imp.format = (IF Len(seen) < 4 THEN <<>> ELSE DetectedBy(seen))
           /\ (pc = "failed") = (imp.format = <<>>)

C22_Witness ==
    /\ pc = "failed" /\ data.size = 64
    /\ DetectedBy(data.content) = ExtCSV /\ Len(data.content) > 16

\* C23: autodetect only peeks: an import that reads from the same reader
\* after it still receives the content from its first byte.
C23_AutoDetectPeeks ==
    pc = "read" => imp.received = data.content


(***************************************************************************)
(* SpecString: the display string of a palette                             *)
(***************************************************************************)
\* func (p *Palette) String(): the header line, the description line when a
\* description is set, and one line per color with its index
String ==
    /\ pc = "start"
    /\ LET line(i) ==
               LET c == pal.Colors[i]
               IN IF c.Name # <<>>
                  THEN <<32, 32, 91>> \o Digits(i - 1) \o <<93, 32>> \o c.Name \o <<58, 32>>
                         \o ColorString(c.Color) \o <<10>>
                  ELSE <<32, 32, 91>> \o Digits(i - 1) \o <<93, 32>> \o ColorString(c.Color) \o <<10>>
           lines[i \in 0..Len(pal.Colors)] == IF i = 0 THEN <<>> ELSE lines[i - 1] \o line(i)
       IN imp' = [text |-> <<80, 97, 108, 101, 116, 116, 101, 58, 32>> \o pal.Name \o <<32, 40>> \o Digits(Len(pal.Colors))
                             \o <<32, 99, 111, 108, 111, 114, 115, 41, 10>>
                           \o (IF pal.Description # <<>>
                               THEN <<68, 101, 115, 99, 114, 105, 112, 116, 105, 111, 110, 58, 32>> \o pal.Description \o <<10>>
                               ELSE <<>>)
                           \o lines[Len(pal.Colors)]]
    /\ pc' = "printed"
    /\ UNCHANGED <<pal, codec, data, paletteVars, colorVars>>

NextString == String

SpecString == InitJSON /\ [][NextString]_vars

\* C24: the display string is the line "{Name} ({N} color[s])", or
\* "{Name} - {Description} ({N} color[s])" when a description is set, with
\* "color" for N = 1 and "colors" otherwise, followed by one line
\* "  {Name}: {color}" per color.
C24_DisplayString ==
    pc = "printed" =>
        LET n == Len(pal.Colors)
            head == pal.Name
                      \o (IF pal.Description # <<>> THEN <<32, 45, 32>> \o pal.Description ELSE <<>>)
                      \o <<32, 40>> \o Digits(n) \o (IF n = 1 THEN <<32, 99, 111, 108, 111, 114, 41>> ELSE <<32, 99, 111, 108, 111, 114, 115, 41>>)
            rest[i \in 0..n] ==
                IF i = 0 THEN <<>>
                ELSE rest[i - 1] \o <<10>> \o <<32, 32>> \o pal.Colors[i].Name \o <<58, 32>>
                       \o ColorString(pal.Colors[i].Color)
        IN imp.text = head \o rest[n]


\* C25: every file that ACB export writes without an error is accepted by
\* ACB import, whatever metadata the palette carries.
C25_ExportedBookImports ==
    (pc = "imported" /\ ByExporter("acb")) => imp.ok

\* C26: the version 2 ACO exporter writes every color's name, whatever
\* metadata the palette's importer left: the file is the version 2 file of
\* the palette's colors with their names.
C26_SwatchNamesWritten ==
    (pc = "exported" /\ ByExporter("aco") /\ codec.Version = Version2)
        => data = swatchMarshalBinary(
                      [Version |-> Version2,
                       Colors |-> [i \in 1..Len(pal.Colors) |->
                                     convertToAdobeSwatchColor(pal.Colors[i].Color,
                                                               pal.Colors[i].Name)]])

\* C27: the BookID that ACB export writes is the id stored under metadata
\* book_id, whatever its dynamic type, or else the generated id in
\* 4000..65534.
C27_BookIDWritten ==
    (pc = "exported" /\ ByExporter("acb"))
        => IF HasMeta(pal, "book_id")
           THEN ReadU16(data, 6) = pal.metadata["book_id"].n
           ELSE ReadU16(data, 6) \in 4000..65534


\* C28: color-space conversion changes only the colors: the palette that
\* ConvertToColorSpace returns has the receiver's name, description and
\* metadata.
C28_ConversionKeepsIdentity ==
    pc = "mapped" => /\ imp.p.Name = pal.Name
                     /\ imp.p.Description = pal.Description
                     /\ imp.p.metadata = pal.metadata


\* C29: whenever ConvertFile returns an error it has neither created nor
\* truncated the file at the output path.
C29_ErrorLeavesOutputAlone ==
    (ConvertFileReturned /\ ~imp.ok) => ~imp.created


\* C30: importing the same generic-object JSON document twice yields
\* palettes with the same colors and names in the same order: whatever the
\* first import returned, a second import of the document returns the same.
C30_GenericImportRepeatable ==
    (pc = "imported" /\ codec.by = "generic")
        => \A again \in jsonImport(data) :
              /\ again.ok = imp.ok
              /\ imp.ok => again.Colors = imp.Colors

====
